---- MODULE Spec2Model ----
(***************************************************************************)
(* Authentication and session management of SveltyCMS: the Auth facade     *)
(* (src/src/auth/index.ts) over the persistence port, and the Redis        *)
(* cache-aside store (src/src/databases/redis.ts).                         *)
(*                                                                         *)
(* Time is the wall clock in milliseconds (Date.now()).  Every await of    *)
(* the facade is a point where another call may run, so an operation is    *)
(* one action per stretch of code between two awaits that touch shared     *)
(* state (the user store, the session store, the token store, Redis).      *)
(***************************************************************************)
EXTENDS Integers, Sequences, FiniteSets, TLC

VARIABLES
    now,          \* Date.now(), in milliseconds
    users,        \* persistence port: user_id -> user record (or NoUser)
    login,        \* caller -> the login call it is running
    consecFails,  \* history: email -> login calls that failed in a row
    failedCheckAt, \* history: email -> time of the last failed password check (-1: none)
    sessions,     \* persistence port: session_id -> session record (or NoSession)
    useRedis,     \* privateEnv.USE_REDIS
    redisClient,  \* redis.ts: "client" once connected, "null" otherwise
    redis,        \* the Redis server: session_id -> entry under the key session:<id>
    stored,       \* history: session_id -> the user last handed to setCachedSession,
                  \* while no clear, expiry or failed set has come after it
    tokens,       \* persistence port: token -> token record (or NoToken)
    consumed,     \* history: token -> consumeToken calls that reported success
    call,         \* caller -> the session, cache or token call it is running
    lastCreate,   \* history: the session of the last createSession, while no
                  \* other call has changed the session store since
    invalidated,  \* history: the session ids that invalidateAllUserSessions
                  \* deleted and that no createSession has handed out since
    given,        \* the permissions dictionary handed to sanitizePermissions
    sanitized,    \* what sanitizePermissions returned, once it was called
    roleStore,    \* the auth_roles collection: role id -> role document (or NoRole)
    permissionRecords, \* the auth_permissions collection: the ids of its documents
    roleCall,     \* caller -> the RoleAdapter call it is running
    cookieCall    \* caller -> the createSessionCookie call it made

loginVars == <<users, login, consecFails, failedCheckAt>>
tokenVars == <<tokens, consumed>>
sessionVars ==
    <<sessions, useRedis, redisClient, redis, stored, call, lastCreate, invalidated>>
adapterVars == <<roleStore, permissionRecords, roleCall>>
roleVars == <<given, sanitized, adapterVars>>
cookieVars == <<cookieCall>>
vars == <<now, loginVars, tokenVars, sessionVars, roleVars, cookieVars>>

-----------------------------------------------------------------------------
(* Bounds of the model *)

\* the clock advances in steps of TickMs, at most MaxTicks times
TickMs == 1800000
MaxTicks == 3
\* consecFails stops counting here
MaxConsec == 6
\* session ids the session store can hand out
MaxSessions == 2
\* tokens the token store can hand out
MaxTokens == 2
\* role documents the auth_roles collection can hold
MaxRoles == 5
\* role documents of the runs that assign and remove permissions
MaxPermissionRoles == 2

-----------------------------------------------------------------------------
(* Values *)

Callers == {"p1", "p2"}
\* callers of the sequential specifications: one call at a time
SeqCallers == {"p1"}

UserIds == {"u1", "u2", "u3"}
Emails == {"a@x", "b@x", "z@x"}
Passwords == {"pw1", "pw2"}

\* a nullable Date-typed attribute: null, a Date, or (out of JSON) an ISO string
NullValue == [kind |-> "null", ms |-> 0]
DateValue(t) == [kind |-> "Date", ms |-> t]

\* new Date(v): a Date and its ISO string denote the same instant
ToDate(v) == v.ms

\* argon2.hash / argon2.verify: a hash verifies exactly the plaintext it was made of
NoPassword == <<>>
\* a hasher that gives the plaintext back
HashLeavingPlaintext(pw) == <<"plaintext", pw>>

Hash(pw) == <<"argon2id", pw>>
Verify(hash, pw) == hash = Hash(pw)

NoUser == [_id |-> "none", email |-> "none", password |-> NoPassword,
           failedAttempts |-> 0, lockoutUntil |-> NullValue]

\* the failed-attempt threshold and the lockout duration of login
LockoutThreshold == 5
\* a lockout of one hour
LockoutMsOneHour == 60 * 60 * 1000

LockoutMs == 30 * 60 * 1000

-----------------------------------------------------------------------------
(* Persistence port: users *)

DbGetUserByEmail(store, email) ==
    IF \E u \in UserIds : store[u] # NoUser /\ store[u].email = email
    THEN store[CHOOSE u \in UserIds : store[u] # NoUser /\ store[u].email = email]
    ELSE NoUser

DbGetUserById(store, user_id) ==
    IF user_id \in UserIds THEN store[user_id] ELSE NoUser

FreeUserIds(store) == {u \in UserIds : store[u] = NoUser}

\* a new record under a fresh id, with the attributes the facade passes
DbCreateUser(store, email, password) ==
    LET id == CHOOSE u \in FreeUserIds(store) : TRUE
    IN  [store EXCEPT ![id] = [_id |-> id, email |-> email, password |-> password,
                               failedAttempts |-> 0, lockoutUntil |-> NullValue]]

DbDeleteUser(store, user_id) ==
    IF user_id \in UserIds THEN [store EXCEPT ![user_id] = NoUser] ELSE store

\* sets the given attributes of the user and leaves the others
DbUpdateUserAttributes(store, user_id, attrs) ==
    IF user_id \in UserIds /\ store[user_id] # NoUser
    THEN [store EXCEPT ![user_id] =
            [f \in DOMAIN @ |-> IF f \in DOMAIN attrs THEN attrs[f] ELSE @[f]]]
    ELSE store

-----------------------------------------------------------------------------
(* Auth.login *)

IdleLogin == [pc |-> "idle", email |-> "none", password |-> "none", user |-> NoUser,
              result |-> "none", hashed |-> FALSE, preConsec |-> 0,
              preFailedCheckAt |-> -1, lockedAtStart |-> FALSE, startAt |-> 0]

\* a lockout test that never finds the user locked out
IsLockedOutNever(user, t) == FALSE

\* a lockout test that still finds the user locked out at lockoutUntil itself
IsLockedOutInclusive(user, t) ==
    user.lockoutUntil.kind # "null" /\ ToDate(user.lockoutUntil) >= t

\* user.lockoutUntil && new Date(user.lockoutUntil) > new Date()
IsLockedOut(user, t) ==
    user.lockoutUntil.kind # "null" /\ ToDate(user.lockoutUntil) > t

\* a counter that moves two steps on a failure
NextFailedAttemptsByTwo(user) == user.failedAttempts + 2

\* (user.failedAttempts || 0) + 1
NextFailedAttempts(user) == user.failedAttempts + 1

\* the threshold test off by one: failedAttempts > 5
ReachesThresholdOffByOne(failedAttempts) == failedAttempts > LockoutThreshold

\* failedAttempts >= 5
ReachesThreshold(failedAttempts) == failedAttempts >= LockoutThreshold

\* a success that resets the counter and forgets the lockout
SuccessAttributesKeepLockout == [failedAttempts |-> 0]

\* the attributes login writes after a verified password
SuccessAttributes == [failedAttempts |-> 0, lockoutUntil |-> NullValue]

\* a lockout that is written without the counter
LockoutAttributesWithoutCount(failedAttempts, t) ==
    [lockoutUntil |-> DateValue(t + LockoutMs)]

\* lines 269-270: the attributes login writes when the threshold is reached
LockoutAttributes(failedAttempts, t) ==
    [failedAttempts |-> failedAttempts, lockoutUntil |-> DateValue(t + LockoutMs)]

\* a failure below the threshold that writes a lockout all the same
FailureAttributesWithLockout(failedAttempts) ==
    [failedAttempts |-> failedAttempts, lockoutUntil |-> DateValue(LockoutMs)]

\* line 274: the attributes login writes after a failure below the threshold
FailureAttributes(failedAttempts) == [failedAttempts |-> failedAttempts]

\* history: the calls for this email that failed in a row, this one included
CountOutcome(email, result) ==
    IF result = "user" THEN [consecFails EXCEPT ![email] = 0]
    ELSE IF result = "null" THEN consecFails
    ELSE [consecFails EXCEPT ![email] = IF @ < MaxConsec THEN @ + 1 ELSE @]

\* a test that only looks for the user
NoLoginUserOnly(user) == user = NoUser

\* if (!user || !user.password), line 250
NoLogin(user) == user = NoUser \/ user.password = NoPassword

\* lines 249-258: read the user; return null, raise the lockout, or go on to verify
LoginRead(p, email, password) ==
    /\ login[p].pc = "idle"
    /\ LET user == DbGetUserByEmail(users, email)
           c == [IdleLogin EXCEPT !.email = email, !.password = password,
                        !.user = user, !.preConsec = consecFails[email],
                        !.preFailedCheckAt = failedCheckAt[email],
                        !.lockedAtStart = IsLockedOut(user, now), !.startAt = now]
       IN  IF NoLogin(user)
           THEN /\ login' = [login EXCEPT ![p] = [c EXCEPT !.pc = "done", !.result = "null"]]
                /\ consecFails' = CountOutcome(email, "null")
           ELSE IF IsLockedOut(user, now)
           THEN /\ login' = [login EXCEPT ![p] = [c EXCEPT !.pc = "done", !.result = "AccountLocked"]]
                /\ consecFails' = CountOutcome(email, "AccountLocked")
           ELSE /\ login' = [login EXCEPT ![p] = [c EXCEPT !.pc = "verify"]]
                /\ UNCHANGED consecFails
    /\ UNCHANGED <<now, roleVars, cookieVars, users, failedCheckAt, tokenVars, sessionVars>>

\* a verification that reads the user record again
UserAtVerifyFresh(c, store) == store[c.user._id]

\* the user the verification works on: the record read at line 249
UserAtVerify(c, store) == c.user

\* lines 260-278: verify the password against the user that was read, write the
\* outcome to the user record, return the user or raise
LoginVerify(p) ==
    /\ login[p].pc = "verify"
    /\ LET c == login[p]
           user == UserAtVerify(c, users)
       IN  IF Verify(user.password, c.password)
           THEN /\ users' = DbUpdateUserAttributes(users, user._id, SuccessAttributes)
                /\ login' = [login EXCEPT ![p] = [c EXCEPT !.pc = "done", !.hashed = TRUE,
                                                      !.result = "user"]]
                /\ consecFails' = CountOutcome(c.email, "user")
                /\ UNCHANGED failedCheckAt
           ELSE LET failedAttempts == NextFailedAttempts(user)
                IN  IF ReachesThreshold(failedAttempts)
                    THEN /\ users' = DbUpdateUserAttributes(users, user._id,
                                        LockoutAttributes(failedAttempts, now))
                         /\ login' = [login EXCEPT ![p] = [c EXCEPT !.pc = "done",
                                        !.hashed = TRUE, !.result = "AccountLockedTooMany"]]
                         /\ consecFails' = CountOutcome(c.email, "AccountLockedTooMany")
                         /\ failedCheckAt' = [failedCheckAt EXCEPT ![c.email] = now]
                    ELSE /\ users' = DbUpdateUserAttributes(users, user._id,
                                        FailureAttributes(failedAttempts))
                         /\ login' = [login EXCEPT ![p] = [c EXCEPT !.pc = "done",
                                        !.hashed = TRUE, !.result = "InvalidCredentials"]]
                         /\ consecFails' = CountOutcome(c.email, "InvalidCredentials")
                         /\ failedCheckAt' = [failedCheckAt EXCEPT ![c.email] = now]
    /\ UNCHANGED <<now, roleVars, cookieVars, tokenVars, sessionVars>>

\* the caller takes the outcome; the next call may start
LoginReturn(p) ==
    /\ login[p].pc = "done"
    /\ login' = [login EXCEPT ![p] = IdleLogin]
    /\ UNCHANGED <<now, roleVars, cookieVars, users, consecFails, failedCheckAt, tokenVars, sessionVars>>

-----------------------------------------------------------------------------
(* Persistence port: sessions *)

SessionIds == 1..MaxSessions
\* the empty session id: !session_id
EmptySessionId == 0
SessionUsers == {"u1"}
Devices == {"d1"}
\* a missing user_id or device_id
Missing == ""

NoSession == [session_id |-> EmptySessionId, user_id |-> "none", device_id |-> "none",
              expires |-> 0]

IsActive(session, t) == session # NoSession /\ session.expires > t

ActiveSessionsOf(store, user_id, device_id, t) ==
    {s \in SessionIds : /\ IsActive(store[s], t)
                        /\ store[s].user_id = user_id
                        /\ store[s].device_id = device_id}

\* the active session of the user on the device, NoSession when there is none
\* (the oldest one, should the store hold several)
DbGetActiveSessionByDeviceId(store, user_id, device_id, t) ==
    LET active == ActiveSessionsOf(store, user_id, device_id, t)
    IN  IF active = {} THEN NoSession
        ELSE store[CHOOSE s \in active : \A o \in active : s <= o]

FreeSessionIds(store) == {s \in SessionIds : store[s] = NoSession}

\* a new record under a fresh id, expiring ttl after t
DbCreateSession(store, user_id, device_id, ttl, t) ==
    LET id == CHOOSE s \in FreeSessionIds(store) : \A o \in FreeSessionIds(store) : s <= o
    IN  [store EXCEPT ![id] = [session_id |-> id, user_id |-> user_id,
                               device_id |-> device_id, expires |-> t + ttl]]

\* the record's expiry moved to new_ttl after t; a missing record stays missing
DbUpdateSessionExpiry(store, session_id, new_ttl, t) ==
    IF session_id \in SessionIds /\ store[session_id] # NoSession
    THEN [store EXCEPT ![session_id].expires = t + new_ttl]
    ELSE store

DbDestroySession(store, session_id) ==
    IF session_id \in SessionIds THEN [store EXCEPT ![session_id] = NoSession] ELSE store

\* the user of a session that exists and has not expired, NoUser (null) otherwise
DbValidateSession(store, userStore, session_id, t) ==
    IF session_id \in SessionIds /\ IsActive(store[session_id], t)
    THEN DbGetUserById(userStore, store[session_id].user_id)
    ELSE NoUser

\* every session of the user is deleted
DbInvalidateAllUserSessions(store, user_id) ==
    [s \in SessionIds |-> IF store[s].user_id = user_id THEN NoSession ELSE store[s]]

\* the number of sessions deleteExpiredSessions deletes, which it returns
ExpiredCount(store, t) ==
    Cardinality({s \in SessionIds : store[s] # NoSession /\ store[s].expires < t})

\* every session whose expires < now is deleted
DbDeleteExpiredSessions(store, t) ==
    [s \in SessionIds |-> IF store[s] # NoSession /\ store[s].expires < t
                          THEN NoSession ELSE store[s]]

-----------------------------------------------------------------------------
(* Persistence port: tokens *)

TokenIds == 1..MaxTokens
\* no token
NoTokenId == 0
TokenTypes == {"access", "reset"}

NoToken == [token |-> NoTokenId, user_id |-> "none", email |-> "none", expires |-> 0,
            type |-> "none"]

\* a token is an opaque random string: one that was handed out never comes again
HandedOut(store, t) == store[t] # NoToken \/ consumed[t] > 0
FreshTokens(store) == {t \in TokenIds : \A o \in TokenIds : o >= t => ~HandedOut(store, o)}
NewToken(store) == CHOOSE t \in FreshTokens(store) : \A o \in FreshTokens(store) : t <= o

DbCreateToken(store, token, user_id, email, ttl, type, t) ==
    [store EXCEPT ![token] = [token |-> token, user_id |-> user_id, email |-> email,
                              expires |-> t + ttl, type |-> type]]

\* the token exists, belongs to the user, has the type and has not expired
TokenMatches(store, token, user_id, type, t) ==
    /\ token \in TokenIds
    /\ store[token] # NoToken
    /\ store[token].user_id = user_id
    /\ store[token].type = type
    /\ store[token].expires > t

DbValidateToken(store, token, user_id, type, t) ==
    [success |-> TokenMatches(store, token, user_id, type, t)]

\* one atomic find-and-delete: a token that matches is deleted and reported
\* consumed, anything else is reported invalid
DbConsumeToken(store, token, user_id, type, t) ==
    IF TokenMatches(store, token, user_id, type, t)
    THEN [status |-> TRUE, store |-> [store EXCEPT ![token] = NoToken]]
    ELSE [status |-> FALSE, store |-> store]

-----------------------------------------------------------------------------
(* redis.ts: the cache *)

\* setCache's default expirationInSeconds
CacheTtlSeconds == 3600

NoEntry == [value |-> NoUser, until |-> 0]

\* JSON.stringify: a Date becomes its ISO string; null, numbers and strings stay
Stringify(user) ==
    [user EXCEPT !.lockoutUntil =
        IF @.kind = "Date" THEN [kind |-> "string", ms |-> @.ms] ELSE @]

\* JSON.parse: a string stays a string
Parse(json) == json

\* a cache read that lets the Redis error through
GetCacheRaising(store, key, fail, t) ==
    IF redisClient = "null" THEN [raised |-> FALSE, value |-> NoUser]
    ELSE IF fail THEN [raised |-> TRUE, value |-> NoUser]
    ELSE IF store[key].until > t THEN [raised |-> FALSE, value |-> Parse(store[key].value)]
    ELSE [raised |-> FALSE, value |-> NoUser]

\* getCache: null without a client, null on a Redis error, else the parsed value
GetCache(store, key, fail, t) ==
    IF redisClient = "null" THEN [raised |-> FALSE, value |-> NoUser]
    ELSE IF fail THEN [raised |-> FALSE, value |-> NoUser]
    ELSE IF store[key].until > t THEN [raised |-> FALSE, value |-> Parse(store[key].value)]
    ELSE [raised |-> FALSE, value |-> NoUser]

\* a cache write that does not look for the client first
SetCacheUnguarded(store, key, value, expirationInSeconds, fail, t) ==
    IF fail THEN [raised |-> FALSE, store |-> store]
    ELSE [raised |-> FALSE,
          store |-> [store EXCEPT ![key] = [value |-> Stringify(value),
                                            until |-> t + expirationInSeconds * 1000]]]

\* setCache: skipped without a client, a Redis error is logged and swallowed
SetCache(store, key, value, expirationInSeconds, fail, t) ==
    IF redisClient = "null" THEN [raised |-> FALSE, store |-> store]
    ELSE IF fail THEN [raised |-> FALSE, store |-> store]
    ELSE [raised |-> FALSE,
          store |-> [store EXCEPT ![key] = [value |-> Stringify(value),
                                            until |-> t + expirationInSeconds * 1000]]]

\* a cache delete that lets the Redis error through
ClearCacheRaising(store, key, fail) ==
    IF redisClient = "null" THEN [raised |-> FALSE, store |-> store]
    ELSE IF fail THEN [raised |-> TRUE, store |-> store]
    ELSE [raised |-> FALSE, store |-> [store EXCEPT ![key] = NoEntry]]

\* clearCache: skipped without a client, a Redis error is logged and swallowed
ClearCache(store, key, fail) ==
    IF redisClient = "null" THEN [raised |-> FALSE, store |-> store]
    ELSE IF fail THEN [raised |-> FALSE, store |-> store]
    ELSE [raised |-> FALSE, store |-> [store EXCEPT ![key] = NoEntry]]

GetCachedSession(store, sessionId, fail, t) == GetCache(store, sessionId, fail, t)
SetCachedSession(store, sessionId, user, fail, t) ==
    SetCache(store, sessionId, user, CacheTtlSeconds, fail, t)
ClearCachedSession(store, sessionId, fail) == ClearCache(store, sessionId, fail)

\* history: what a later getCachedSession is expected to give back
Remember(history, sessionId, user, fail, t) ==
    [history EXCEPT ![sessionId] =
        IF redisClient = "client" /\ ~fail
        THEN [value |-> user, until |-> t + CacheTtlSeconds * 1000]
        ELSE NoEntry]

\* a Redis command can fail only when there is a client to send it
CanFail(fail) == fail => redisClient = "client"

-----------------------------------------------------------------------------
(* Auth: sessions *)

IdleCall == [op |-> "none", pc |-> "idle", session_id |-> EmptySessionId,
             user_id |-> "none", device_id |-> "none", ttl |-> 0,
             found |-> NoSession, result |-> "none", user |-> NoUser,
             session |-> NoSession, dbFailed |-> FALSE, cacheTried |-> FALSE,
             cacheFailed |-> FALSE, cacheHit |-> FALSE, validAtStart |-> FALSE,
             prev |-> [session |-> NoSession, ttl |-> 0], startAt |-> 0,
             token |-> NoTokenId, type |-> "none", expected |-> NoUser,
             expires |-> 0, isExtended |-> FALSE,
             held |-> NoUser, readFailed |-> FALSE, dbAsked |-> FALSE,
             writeFailed |-> FALSE,
             email |-> "none", password |-> "none", hashFailed |-> FALSE,
             wasInvalidated |-> FALSE, deletedCount |-> 0, returned |-> -1,
             message |-> "none"]

Begin(op) == [IdleCall EXCEPT !.op = op, !.startAt = now]
Finish(c, result) == [c EXCEPT !.pc = "done", !.result = result]

\* a ttl that is never doubled
EffectiveTtlNeverDoubled(expires, isExtended) == expires

\* isExtended ? expires * 2 : expires
EffectiveTtl(expires, isExtended) == IF isExtended THEN expires * 2 ELSE expires

\* a lookup result that is never taken for an existing session
NeverExisting(found) == FALSE

\* if (existingSession)
ExistingSession(found) == found # NoSession

\* a check that only looks at the user_id
IdsMissingUserOnly(user_id, device_id) == user_id = Missing

\* if (!user_id || !device_id), line 117
IdsMissing(user_id, device_id) == user_id = Missing \/ device_id = Missing

\* createSession, lines 117-125: check the ids, look for the active session
CreateSessionFind(p, user_id, device_id, expires, isExtended, dbFail) ==
    /\ call[p].pc = "idle"
    /\ LET c == [Begin("createSession") EXCEPT !.user_id = user_id, !.device_id = device_id,
                    !.expires = expires, !.isExtended = isExtended,
                    !.ttl = EffectiveTtl(expires, isExtended),
                    !.prev = IF /\ lastCreate.session.user_id = user_id
                                /\ lastCreate.session.device_id = device_id
                             THEN lastCreate ELSE IdleCall.prev]
       IN  IF IdsMissing(user_id, device_id)
           THEN call' = [call EXCEPT ![p] = Finish(c, "validationError")]
           ELSE IF dbFail
           THEN call' = [call EXCEPT ![p] = Finish([c EXCEPT !.dbFailed = TRUE], "error")]
           ELSE call' = [call EXCEPT ![p] =
                    [c EXCEPT !.pc = "write",
                              !.found = DbGetActiveSessionByDeviceId(sessions, user_id,
                                                                    device_id, now)]]
    /\ UNCHANGED <<now, roleVars, cookieVars, loginVars, tokenVars, sessions, useRedis, redisClient, redis, stored, lastCreate, invalidated>>

\* createSession, lines 126-139: renew the session that was found, or create one
CreateSessionWrite(p, dbFail) ==
    /\ call[p].pc = "write"
    /\ call[p].op = "createSession"
    /\ LET c == call[p]
       IN  IF dbFail
           THEN /\ call' = [call EXCEPT ![p] = Finish([c EXCEPT !.dbFailed = TRUE], "error")]
                /\ UNCHANGED <<sessions, lastCreate, invalidated>>
           ELSE IF ExistingSession(c.found)
           THEN LET updated == DbUpdateSessionExpiry(sessions, c.found.session_id, c.ttl, now)
                    session == updated[c.found.session_id]
                IN  /\ sessions' = updated
                    /\ call' = [call EXCEPT ![p] = Finish([c EXCEPT !.session = session],
                                    IF session = NoSession THEN "null" ELSE "session")]
                    /\ lastCreate' = [session |-> session, ttl |-> c.ttl]
                    /\ UNCHANGED invalidated
           ELSE /\ FreeSessionIds(sessions) # {}
                /\ LET created == DbCreateSession(sessions, c.user_id, c.device_id, c.ttl, now)
                       id == CHOOSE s \in SessionIds : created[s] # sessions[s]
                   IN  /\ sessions' = created
                       /\ call' = [call EXCEPT ![p] =
                                    Finish([c EXCEPT !.session = created[id]], "session")]
                       /\ lastCreate' = [session |-> created[id], ttl |-> c.ttl]
                       /\ invalidated' = invalidated \ {id}
    /\ UNCHANGED <<now, roleVars, cookieVars, loginVars, tokenVars, useRedis, redisClient, redis, stored>>

\* history: the user Redis holds under the session's key, NoUser when it holds none
Held(store, sessionId, t) ==
    IF redisClient = "client" /\ sessionId \in SessionIds /\ store[sessionId].until > t
    THEN store[sessionId].value ELSE NoUser

\* a cache read that is never taken for a hit
CacheHitNever(user) == FALSE

\* if (user), line 311
CacheHit(user) == user # NoUser

\* validateSession, lines 300-316: an empty id raises; with Redis the cache is
\* read first and a hit returns; otherwise the session store is asked next
ValidateSessionStart(p, session_id, fail) ==
    /\ call[p].pc = "idle"
    /\ CanFail(fail)
    /\ LET c == [Begin("validateSession") EXCEPT !.session_id = session_id,
                    !.validAtStart = DbValidateSession(sessions, users, session_id, now) # NoUser,
                    !.wasInvalidated = session_id \in invalidated]
       IN  IF session_id = EmptySessionId
           THEN call' = [call EXCEPT ![p] = Finish(c, "error")]
           ELSE IF useRedis
           THEN LET got == GetCachedSession(redis, session_id, fail, now)
                    d == [c EXCEPT !.cacheTried = TRUE, !.cacheFailed = fail,
                                   !.readFailed = fail,
                                   !.held = Held(redis, session_id, now)]
                IN  IF got.raised
                    THEN call' = [call EXCEPT ![p] = Finish(d, "error")]
                    ELSE IF CacheHit(got.value)
                    THEN call' = [call EXCEPT ![p] =
                            Finish([d EXCEPT !.cacheHit = TRUE, !.user = got.value], "user")]
                    ELSE call' = [call EXCEPT ![p] = [d EXCEPT !.pc = "db"]]
           ELSE call' = [call EXCEPT ![p] = [c EXCEPT !.pc = "db"]]
    /\ UNCHANGED <<now, roleVars, cookieVars, loginVars, tokenVars, sessions, useRedis, redisClient, redis, stored, lastCreate, invalidated>>

\* validateSession, lines 319-330: the session store's answer
ValidateSessionDb(p, dbFail) ==
    /\ call[p].pc = "db"
    /\ call[p].op = "validateSession"
    /\ LET c == [call[p] EXCEPT !.dbAsked = TRUE]
           user == DbValidateSession(sessions, users, c.session_id, now)
       IN  IF dbFail
           THEN call' = [call EXCEPT ![p] = Finish([c EXCEPT !.dbFailed = TRUE], "error")]
           ELSE IF user = NoUser
           THEN call' = [call EXCEPT ![p] = Finish(c, "null")]
           ELSE IF useRedis
           THEN call' = [call EXCEPT ![p] = [c EXCEPT !.pc = "cache", !.user = user]]
           ELSE call' = [call EXCEPT ![p] = Finish([c EXCEPT !.user = user], "user")]
    /\ UNCHANGED <<now, roleVars, cookieVars, loginVars, tokenVars, sessions, useRedis, redisClient, redis, stored, lastCreate, invalidated>>

\* validateSession, lines 324-330: the user is cached and returned
ValidateSessionCache(p, fail) ==
    /\ call[p].pc = "cache"
    /\ call[p].op = "validateSession"
    /\ CanFail(fail)
    /\ LET c == call[p]
           put == SetCachedSession(redis, c.session_id, c.user, fail, now)
       IN  /\ redis' = put.store
           /\ stored' = Remember(stored, c.session_id, c.user, fail, now)
           /\ call' = [call EXCEPT ![p] =
                    Finish([c EXCEPT !.cacheFailed = c.cacheFailed \/ fail,
                                     !.writeFailed = fail],
                           IF put.raised THEN "error" ELSE "user")]
    /\ UNCHANGED <<now, roleVars, cookieVars, loginVars, tokenVars, sessions, useRedis, redisClient, lastCreate, invalidated>>

\* destroySession, lines 206-207: the durable delete; its failure ends the call
DestroySessionDb(p, session_id, dbFail) ==
    /\ call[p].pc = "idle"
    /\ LET c == [Begin("destroySession") EXCEPT !.session_id = session_id]
       IN  IF dbFail
           THEN /\ call' = [call EXCEPT ![p] = Finish([c EXCEPT !.dbFailed = TRUE], "error")]
                /\ UNCHANGED <<sessions, lastCreate, invalidated>>
           ELSE /\ sessions' = DbDestroySession(sessions, session_id)
                /\ lastCreate' = IdleCall.prev
                /\ UNCHANGED invalidated
                /\ call' = [call EXCEPT ![p] =
                        IF useRedis THEN [c EXCEPT !.pc = "evict"] ELSE Finish(c, "ok")]
    /\ UNCHANGED <<now, roleVars, cookieVars, loginVars, tokenVars, useRedis, redisClient, redis, stored>>

\* destroySession, lines 209-212: the cache entry is cleared
DestroySessionEvict(p, fail) ==
    /\ call[p].pc = "evict"
    /\ call[p].op = "destroySession"
    /\ CanFail(fail)
    /\ LET c == call[p]
           cleared == ClearCachedSession(redis, c.session_id, fail)
       IN  /\ redis' = cleared.store
           /\ stored' = [stored EXCEPT ![c.session_id] = NoEntry]
           /\ call' = [call EXCEPT ![p] =
                    Finish([c EXCEPT !.cacheTried = TRUE, !.cacheFailed = fail],
                           IF cleared.raised THEN "error" ELSE "ok")]
    /\ UNCHANGED <<now, roleVars, cookieVars, loginVars, tokenVars, sessions, useRedis, redisClient, lastCreate, invalidated>>

\* logOut, lines 287-296: the durable delete and nothing else
LogOut(p, session_id, dbFail) ==
    /\ call[p].pc = "idle"
    /\ LET c == [Begin("logOut") EXCEPT !.session_id = session_id]
       IN  IF dbFail
           THEN /\ call' = [call EXCEPT ![p] = Finish([c EXCEPT !.dbFailed = TRUE], "error")]
                /\ UNCHANGED <<sessions, lastCreate, invalidated>>
           ELSE /\ sessions' = DbDestroySession(sessions, session_id)
                /\ lastCreate' = IdleCall.prev
                /\ UNCHANGED invalidated
                /\ call' = [call EXCEPT ![p] = Finish(c, "ok")]
    /\ UNCHANGED <<now, roleVars, cookieVars, loginVars, tokenVars, useRedis, redisClient, redis, stored>>

\* no value: what a Promise<void> resolves to
NoCount == -1

\* a cleanup that hands the count to its caller
CleanupResultCount(deletedCount) == deletedCount

\* lines 221-224: the count is logged, the call returns nothing
CleanupResult(deletedCount) == NoCount

\* cleanupExpiredSessions, lines 221-230
CleanupExpiredSessions(p, dbFail) ==
    /\ call[p].pc = "idle"
    /\ LET deletedCount == ExpiredCount(sessions, now)
           c == [Begin("cleanupExpiredSessions") EXCEPT
                    !.deletedCount = IF dbFail THEN 0 ELSE deletedCount,
                    !.returned = IF dbFail THEN NoCount ELSE CleanupResult(deletedCount)]
       IN  IF dbFail
           THEN /\ call' = [call EXCEPT ![p] = Finish([c EXCEPT !.dbFailed = TRUE], "error")]
                /\ UNCHANGED <<sessions, lastCreate, invalidated>>
           ELSE /\ sessions' = DbDeleteExpiredSessions(sessions, now)
                /\ lastCreate' = IdleCall.prev
                /\ UNCHANGED invalidated
                /\ call' = [call EXCEPT ![p] = Finish(c, "ok")]
    /\ UNCHANGED <<now, roleVars, cookieVars, loginVars, tokenVars, useRedis, redisClient, redis, stored>>

\* the caller takes the outcome; its next call may start
Return(p) ==
    /\ call[p].pc = "done"
    /\ call' = [call EXCEPT ![p] = IdleCall]
    /\ UNCHANGED <<now, roleVars, cookieVars, loginVars, tokenVars, sessions, useRedis, redisClient, redis, stored, lastCreate, invalidated>>

-----------------------------------------------------------------------------
(* redis.ts called directly *)

\* the caller's view of a session call: nothing but the cache moves
CacheFrame == UNCHANGED <<now, roleVars, cookieVars, loginVars, tokenVars, sessions, useRedis, redisClient, lastCreate, invalidated>>

\* getCachedSession(sessionId), lines 96-98
GetCachedSessionCall(p, sessionId, fail) ==
    /\ call[p].pc = "idle"
    /\ CanFail(fail)
    /\ LET got == GetCachedSession(redis, sessionId, fail, now)
           c == [Begin("getCachedSession") EXCEPT !.session_id = sessionId,
                    !.cacheTried = TRUE, !.cacheFailed = fail, !.user = got.value,
                    !.cacheHit = got.value # NoUser,
                    !.expected = stored[sessionId].value]
       IN  call' = [call EXCEPT ![p] =
                Finish(c, IF got.raised THEN "error"
                          ELSE IF got.value = NoUser THEN "null" ELSE "user")]
    /\ UNCHANGED <<redis, stored>>
    /\ CacheFrame

\* setCachedSession(sessionId, user), lines 100-102
SetCachedSessionCall(p, sessionId, user, fail) ==
    /\ call[p].pc = "idle"
    /\ CanFail(fail)
    /\ LET put == SetCachedSession(redis, sessionId, user, fail, now)
           c == [Begin("setCachedSession") EXCEPT !.session_id = sessionId,
                    !.cacheTried = TRUE, !.cacheFailed = fail, !.user = user]
       IN  /\ redis' = put.store
           /\ stored' = Remember(stored, sessionId, user, fail, now)
           /\ call' = [call EXCEPT ![p] = Finish(c, IF put.raised THEN "error" ELSE "ok")]
    /\ CacheFrame

\* clearCachedSession(sessionId), lines 104-106
ClearCachedSessionCall(p, sessionId, fail) ==
    /\ call[p].pc = "idle"
    /\ CanFail(fail)
    /\ LET cleared == ClearCachedSession(redis, sessionId, fail)
           c == [Begin("clearCachedSession") EXCEPT !.session_id = sessionId,
                    !.cacheTried = TRUE, !.cacheFailed = fail]
       IN  /\ redis' = cleared.store
           /\ stored' = [stored EXCEPT ![sessionId] = NoEntry]
           /\ call' = [call EXCEPT ![p] = Finish(c, IF cleared.raised THEN "error" ELSE "ok")]
    /\ CacheFrame

-----------------------------------------------------------------------------
(* Auth: tokens *)

\* a lookup that never finds the user missing
UserNotFoundNever(user) == FALSE

\* if (!user), line 342
UserNotFound(user) == user = NoUser

\* a facade that reports every answered validation as a success
ValidationAlwaysSuccess(validation) == [validation EXCEPT !.success = TRUE]

\* return await this.db.validateToken(token, user_id, type), line 357
Validation(validation) == validation

\* createToken, lines 341-342: the user is looked up; a missing user raises
CreateTokenLookup(p, user_id, expires, type, dbFail) ==
    /\ call[p].pc = "idle"
    /\ LET user == DbGetUserById(users, user_id)
           c == [Begin("createToken") EXCEPT !.user_id = user_id, !.ttl = expires,
                    !.type = type, !.user = user]
       IN  call' = [call EXCEPT ![p] =
                IF dbFail THEN Finish([c EXCEPT !.dbFailed = TRUE], "error")
                ELSE IF UserNotFound(user) THEN Finish(c, "error")
                ELSE [c EXCEPT !.pc = "write"]]
    /\ UNCHANGED <<now, roleVars, cookieVars, loginVars, tokenVars, sessions, useRedis, redisClient, redis,
                   stored, lastCreate, invalidated>>

\* createToken, lines 343-345: the token is persisted and returned
CreateTokenWrite(p, dbFail) ==
    /\ call[p].pc = "write"
    /\ call[p].op = "createToken"
    /\ LET c == call[p]
       IN  IF dbFail
           THEN /\ call' = [call EXCEPT ![p] = Finish([c EXCEPT !.dbFailed = TRUE], "error")]
                /\ UNCHANGED tokens
           ELSE /\ FreshTokens(tokens) # {}
                /\ LET token == NewToken(tokens)
                   IN  /\ tokens' = DbCreateToken(tokens, token, c.user_id, c.user.email,
                                                 c.ttl, c.type, now)
                       /\ call' = [call EXCEPT ![p] = Finish([c EXCEPT !.token = token], "token")]
    /\ UNCHANGED <<now, roleVars, cookieVars, loginVars, consumed, sessions, useRedis, redisClient, redis,
                   stored, lastCreate, invalidated>>

\* validateToken, lines 354-363
ValidateToken(p, token, user_id, type, dbFail) ==
    /\ call[p].pc = "idle"
    /\ LET c == [Begin("validateToken") EXCEPT !.token = token, !.user_id = user_id,
                    !.type = type]
       IN  call' = [call EXCEPT ![p] =
                IF dbFail THEN Finish([c EXCEPT !.dbFailed = TRUE], "error")
                ELSE IF Validation(DbValidateToken(tokens, token, user_id, type, now)).success
                THEN Finish(c, "valid") ELSE Finish(c, "invalid")]
    /\ UNCHANGED <<now, roleVars, cookieVars, loginVars, tokenVars, sessions, useRedis, redisClient, redis,
                   stored, lastCreate, invalidated>>

\* consumeToken, lines 366-369: the call is on its way to the token store
ConsumeTokenCall(p, token, user_id, type) ==
    /\ call[p].pc = "idle"
    /\ call' = [call EXCEPT ![p] =
            [Begin("consumeToken") EXCEPT !.pc = "db", !.token = token,
                !.user_id = user_id, !.type = type]]
    /\ UNCHANGED <<now, roleVars, cookieVars, loginVars, tokenVars, sessions, useRedis, redisClient, redis,
                   stored, lastCreate, invalidated>>

\* a facade that reports every answered consumption as a success
ConsumptionAlwaysValid(consumption) == [consumption EXCEPT !.status = TRUE]

\* const consumption = await this.db.consumeToken(...); return consumption
Consumption(consumption) == consumption

\* consumeToken, lines 369-376: the token store answers, the answer is returned
ConsumeTokenDb(p, dbFail) ==
    /\ call[p].pc = "db"
    /\ call[p].op = "consumeToken"
    /\ LET c == call[p]
           answer == DbConsumeToken(tokens, c.token, c.user_id, c.type, now)
           consumption == Consumption(answer)
       IN  IF dbFail
           THEN /\ call' = [call EXCEPT ![p] = Finish([c EXCEPT !.dbFailed = TRUE], "error")]
                /\ UNCHANGED <<tokens, consumed>>
           ELSE /\ tokens' = answer.store
                /\ call' = [call EXCEPT ![p] =
                        Finish(c, IF consumption.status THEN "consumed" ELSE "invalid")]
                /\ consumed' = IF consumption.status
                               THEN [consumed EXCEPT ![c.token] = @ + 1] ELSE consumed
    /\ UNCHANGED <<now, roleVars, cookieVars, loginVars, sessions, useRedis, redisClient, redis, stored, lastCreate, invalidated>>

-----------------------------------------------------------------------------
(* Auth: users *)

\* no password given; a null email
NoPlaintext == "none"
NullEmail == "null"

\* the empty string given as a password
EmptyPlaintext == ""

\* if (password), lines 29 and 67: undefined and the empty string are no
\* password; the empty string that updateUserAttributes lets through to the
\* write is stored as no password (login takes both for none, line 250)
NoPasswordGiven(password) == password \in {NoPlaintext, EmptyPlaintext}

\* createUser, lines 23-60: the password, when given, is hashed; the user is
\* created with failedAttempts 0; any failure is raised again.  The user store
\* keeps emails unique and rejects a second user of an email.
CreateUser(p, email, password, hashFail, dbFail) ==
    /\ call[p].pc = "idle"
    /\ hashFail => ~NoPasswordGiven(password)
    /\ LET c == [Begin("createUser") EXCEPT !.email = email, !.password = password]
           hashedPassword == IF NoPasswordGiven(password) THEN NoPassword ELSE Hash(password)
           rejected == dbFail \/ DbGetUserByEmail(users, email) # NoUser
       IN  IF hashFail
           THEN /\ call' = [call EXCEPT ![p] = Finish([c EXCEPT !.hashFailed = TRUE], "error")]
                /\ UNCHANGED users
           ELSE IF rejected
           THEN /\ call' = [call EXCEPT ![p] = Finish([c EXCEPT !.dbFailed = TRUE], "error")]
                /\ UNCHANGED users
           ELSE /\ FreeUserIds(users) # {}
                /\ LET created == DbCreateUser(users, email, hashedPassword)
                       user == DbGetUserByEmail(created, email)
                   IN  /\ users' = created
                       /\ call' = [call EXCEPT ![p] = Finish([c EXCEPT !.user = user], "user")]
    /\ UNCHANGED <<now, roleVars, cookieVars, login, consecFails, failedCheckAt, tokenVars, sessions,
                   useRedis, redisClient, redis, stored, lastCreate, invalidated>>

\* the attributes updateUserAttributes is called with
AttributeSets ==
    {[password |-> pw] : pw \in Passwords}
        \cup {[email |-> NullEmail], [password |-> EmptyPlaintext]}
        \cup {[password |-> pw, email |-> NullEmail] : pw \in Passwords}

\* lines 66-81: a password is replaced by its hash, a null email becomes
\* undefined, which the write leaves out
HashedAttributes(attributes) ==
    LET kept == {f \in DOMAIN attributes : ~(f = "email" /\ attributes[f] = NullEmail)}
    IN  [f \in kept |->
            IF f # "password" THEN attributes[f]
            ELSE IF NoPasswordGiven(attributes[f]) THEN NoPassword
            ELSE Hash(attributes[f])]

\* updateUserAttributes, lines 63-91
UpdateUserAttributes(p, user_id, attributes, hashFail, dbFail) ==
    /\ call[p].pc = "idle"
    /\ hashFail => ("password" \in DOMAIN attributes /\ ~NoPasswordGiven(attributes.password))
    /\ LET c == [Begin("updateUserAttributes") EXCEPT !.user_id = user_id,
                    !.password = IF "password" \in DOMAIN attributes
                                 THEN attributes.password ELSE NoPlaintext,
                    !.email = IF "email" \in DOMAIN attributes
                              THEN attributes.email ELSE "none"]
       IN  IF hashFail
           THEN /\ call' = [call EXCEPT ![p] = Finish([c EXCEPT !.hashFailed = TRUE], "error")]
                /\ UNCHANGED users
           ELSE IF dbFail
           THEN /\ call' = [call EXCEPT ![p] = Finish([c EXCEPT !.dbFailed = TRUE], "error")]
                /\ UNCHANGED users
           ELSE /\ users' = DbUpdateUserAttributes(users, user_id, HashedAttributes(attributes))
                /\ call' = [call EXCEPT ![p] = Finish(c, "ok")]
    /\ UNCHANGED <<now, roleVars, cookieVars, login, consecFails, failedCheckAt, tokenVars, sessions,
                   useRedis, redisClient, redis, stored, lastCreate, invalidated>>

\* deleteUser, lines 94-103
DeleteUser(p, user_id, dbFail) ==
    /\ call[p].pc = "idle"
    /\ LET c == [Begin("deleteUser") EXCEPT !.user_id = user_id]
       IN  IF dbFail
           THEN /\ call' = [call EXCEPT ![p] = Finish([c EXCEPT !.dbFailed = TRUE], "error")]
                /\ UNCHANGED users
           ELSE /\ users' = DbDeleteUser(users, user_id)
                /\ call' = [call EXCEPT ![p] = Finish(c, "ok")]
    /\ UNCHANGED <<now, roleVars, cookieVars, login, consecFails, failedCheckAt, tokenVars, sessions,
                   useRedis, redisClient, redis, stored, lastCreate, invalidated>>

\* invalidateAllUserSessions, lines 380-389
InvalidateAllUserSessions(p, user_id, dbFail) ==
    /\ call[p].pc = "idle"
    /\ LET c == [Begin("invalidateAllUserSessions") EXCEPT !.user_id = user_id]
       IN  IF dbFail
           THEN /\ call' = [call EXCEPT ![p] = Finish([c EXCEPT !.dbFailed = TRUE], "error")]
                /\ UNCHANGED <<sessions, lastCreate, invalidated>>
           ELSE /\ sessions' = DbInvalidateAllUserSessions(sessions, user_id)
                /\ lastCreate' = IdleCall.prev
                /\ invalidated' = invalidated \cup
                        {s \in SessionIds : sessions[s].user_id = user_id}
                /\ call' = [call EXCEPT ![p] = Finish(c, "ok")]
    /\ UNCHANGED <<now, roleVars, cookieVars, loginVars, tokenVars, useRedis, redisClient, redis, stored>>

\* a catch that raises the error again
PasswordUpdateCaughtRaising(c) == Finish(c, "error")

\* updateUserPassword, lines 411-415: the catch returns { status: false }
PasswordUpdateCaught(c) ==
    Finish([c EXCEPT !.message = "Failed to update password"], "statusFalse")

\* updateUserPassword, lines 393-398: the user is looked up by email; without
\* a user, and when the lookup fails, { status: false } is returned
UpdateUserPasswordLookup(p, email, newPassword, dbFail) ==
    /\ call[p].pc = "idle"
    /\ LET user == DbGetUserByEmail(users, email)
           c == [Begin("updateUserPassword") EXCEPT !.email = email,
                    !.password = newPassword]
       IN  call' = [call EXCEPT ![p] =
                IF dbFail THEN PasswordUpdateCaught([c EXCEPT !.dbFailed = TRUE])
                ELSE IF user = NoUser
                THEN Finish([c EXCEPT !.message = "User not found"], "statusFalse")
                ELSE [c EXCEPT !.pc = "write", !.user = user]]
    /\ UNCHANGED <<now, roleVars, cookieVars, loginVars, tokenVars, sessions, useRedis, redisClient,
                   redis, stored, lastCreate, invalidated>>

\* updateUserPassword, lines 399-415: the new password is hashed and written;
\* { status: true } is returned, and { status: false } when either step failed
UpdateUserPasswordWrite(p, hashFail, dbFail) ==
    /\ call[p].pc = "write"
    /\ call[p].op = "updateUserPassword"
    /\ LET c == call[p]
       IN  IF hashFail
           THEN /\ call' = [call EXCEPT ![p] =
                        PasswordUpdateCaught([c EXCEPT !.hashFailed = TRUE])]
                /\ UNCHANGED users
           ELSE IF dbFail
           THEN /\ call' = [call EXCEPT ![p] =
                        PasswordUpdateCaught([c EXCEPT !.dbFailed = TRUE])]
                /\ UNCHANGED users
           ELSE /\ users' = DbUpdateUserAttributes(users, c.user._id,
                                                   [password |-> Hash(c.password)])
                /\ call' = [call EXCEPT ![p] =
                        Finish([c EXCEPT !.message = "Password updated successfully"],
                               "statusTrue")]
    /\ UNCHANGED <<now, roleVars, cookieVars, login, consecFails, failedCheckAt, tokenVars, sessions,
                   useRedis, redisClient, redis, stored, lastCreate, invalidated>>

-----------------------------------------------------------------------------
(* roleAdapter.ts: roles and permissions *)

adminRole == "admin"
flexibleRoles == {"developer", "editor", "user"}
roles == {adminRole} \cup flexibleRoles
permissions == {"create", "read", "write", "delete"}

\* lines 227-244: every permission granted, but write for the role user
defaultPermissions ==
    [r \in roles |->
        [p \in permissions |->
            CASE r \in {"admin", "developer"} -> TRUE
              [] r = "editor" -> TRUE
              [] r = "user" -> p # "write"]]

\* return undefined: no overrides, which is not the same as an empty dictionary
Undefined == [defined |-> FALSE, value |-> <<>>]
Defined(value) == [defined |-> TRUE, value |-> value]

\* a test that keeps the permissions that are denied
PermissionDenied(value, default) == value = FALSE

\* line 353: permissions[r][p] != defaultPermissions[r][p]
PermissionDiffers(value, default) == value # default

\* a reduction that stores the default in place of the value that differs
RoleOverridesStoringDefault(dictionary, r) ==
    LET kept == {p \in DOMAIN dictionary[r] :
                    PermissionDiffers(dictionary[r][p], defaultPermissions[r][p])}
    IN  [p \in kept |-> defaultPermissions[r][p]]

\* lines 351-357: the permissions of role r that differ from the default
RoleOverrides(dictionary, r) ==
    LET kept == {p \in DOMAIN dictionary[r] :
                    PermissionDiffers(dictionary[r][p], defaultPermissions[r][p])}
    IN  [p \in kept |-> dictionary[r][p]]

\* lines 350-362: the roles that are left with an override
Overrides(dictionary) ==
    LET kept == {r \in DOMAIN dictionary : DOMAIN RoleOverrides(dictionary, r) # {}}
    IN  [r \in kept |-> RoleOverrides(dictionary, r)]

\* a sanitizer that returns the dictionary it built also when it is empty
sanitizePermissionsKeepingEmpty(dictionary) == Defined(Overrides(dictionary))

\* lines 349-367
sanitizePermissions(dictionary) ==
    LET res == Overrides(dictionary)
    IN  IF DOMAIN res = {} THEN Undefined ELSE Defined(res)

NotSanitized == [called |-> FALSE, result |-> Undefined]

\* the caller prepares the dictionary: it sets one permission of a role
SetPermission(r, p, value) ==
    /\ ~sanitized.called
    /\ r \in DOMAIN given
    /\ given[r][p] # value
    /\ given' = [given EXCEPT ![r][p] = value]
    /\ UNCHANGED <<now, loginVars, tokenVars, sessionVars, adapterVars, cookieVars, sanitized>>

\* the caller prepares the dictionary: it leaves a role out
OmitRole(r) ==
    /\ ~sanitized.called
    /\ r \in DOMAIN given
    /\ given' = [o \in DOMAIN given \ {r} |-> given[o]]
    /\ UNCHANGED <<now, loginVars, tokenVars, sessionVars, adapterVars, cookieVars, sanitized>>

\* sanitizePermissions(permissions) is called and returns
SanitizePermissionsCall ==
    /\ ~sanitized.called
    /\ sanitized' = [called |-> TRUE, result |-> sanitizePermissions(given)]
    /\ UNCHANGED <<now, loginVars, tokenVars, sessionVars, adapterVars, cookieVars, given>>

-----------------------------------------------------------------------------
(* roleAdapter.ts: the auth_roles collection *)

\* the _id values role documents can have (0: no document)
RoleIds == 1..MaxRoles

\* the _id values of the auth_permissions documents
PermissionIds == {"perm1", "perm2"}

\* initializeDefaultRoles, lines 179-184: the roles it seeds, in this order
defaultRoles == <<"admin", "developer", "editor", "user">>

DefaultRoleNames == {defaultRoles[i] : i \in DOMAIN defaultRoles}

\* no document under this _id
NoRole == [_id |-> 0, name |-> "none", permissions |-> <<>>]

Range(seq) == {seq[i] : i \in DOMAIN seq}

\* the documents of the collection
RoleDocs(store) == {id \in RoleIds : store[id] # NoRole}

\* the documents with this name
RolesNamed(store, name) == {id \in RoleDocs(store) : store[id].name = name}

\* RoleSchema, lines 14-21: name is required and permissions is an array of
\* ObjectIds; no field is declared unique, and save() inserts whatever it is given
SaveAllowed(store, roleData) == TRUE

LowestFree(store) == CHOOSE id \in RoleIds \ RoleDocs(store) :
                        \A other \in RoleIds \ RoleDocs(store) : id <= other

\* new RoleModel(roleData).save(): a document under a fresh _id
Save(store, roleData) ==
    [store EXCEPT ![LowestFree(store)] =
        [_id |-> LowestFree(store), name |-> roleData.name,
         permissions |-> roleData.permissions]]

\* findByIdAndUpdate(role_id, roleData): the fields of roleData replace the
\* document's; nothing happens when there is no such document
FindByIdAndUpdate(store, role_id, roleData) ==
    IF store[role_id] = NoRole
    THEN store
    ELSE [store EXCEPT ![role_id] =
            [f \in DOMAIN store[role_id] |->
                IF f \in DOMAIN roleData THEN roleData[f] ELSE store[role_id][f]]]

\* findByIdAndDelete(role_id): the role document goes and nothing else
FindByIdAndDeleteCascading(store, role_id) ==
    [id \in RoleIds |->
        IF id = role_id \/ store[id] = NoRole
        THEN NoRole
        ELSE [store[id] EXCEPT !.permissions =
                SelectSeq(store[id].permissions,
                          LAMBDA e : e \notin Range(store[role_id].permissions))]]

FindByIdAndDelete(store, role_id) == [store EXCEPT ![role_id] = NoRole]

\* findOne({ name }): a document with exactly this name, or null
FindOne(store, name) ==
    IF RolesNamed(store, name) = {}
    THEN NoRole
    ELSE store[CHOOSE id \in RolesNamed(store, name) :
                  \A other \in RolesNamed(store, name) : id <= other]

\* { $addToSet: { permissions: permission_id } }
AddToSetPushing(perms, permission_id) == Append(perms, permission_id)

AddToSet(perms, permission_id) ==
    IF permission_id \in Range(perms) THEN perms ELSE Append(perms, permission_id)

\* { $pull: { permissions: permission_id } }: every occurrence goes
Pull(perms, permission_id) == SelectSeq(perms, LAMBDA e : e # permission_id)

\* initializeDefaultRoles, line 189: if (!existingRole)
NoExistingRoleAlways(existingRole) == TRUE

NoExistingRole(existingRole) == existingRole = NoRole

\* a call that is remembered once it returned: a completed initializeDefaultRoles,
\* assignPermissionToRole or removePermissionFromRole
NoCall == [op |-> "none", role_id |-> 0, permission_id |-> "none"]

IdleRoleCall ==
    [op |-> "none", pc |-> "idle", result |-> "none",
     role_id |-> 0, permission_id |-> "none",
     index |-> 0,                     \* the default role the loop is at
     storeAtStart |-> [id \in RoleIds |-> NoRole],
                                      \* the collection when the call was made
     created |-> 0,                   \* createRole calls made by the run
     last |-> NoCall]                 \* the call that returned before this one

RoleFinish(c, op, result) == [c EXCEPT !.op = op, !.pc = "done", !.result = result]

\* createRole(roleData, currentUserId), lines 34-44
CreateRole(p, roleData, dbFail) ==
    /\ roleCall[p].pc = "idle"
    /\ RoleIds \ RoleDocs(roleStore) # {}
    /\ IF dbFail \/ ~SaveAllowed(roleStore, roleData)
       THEN /\ roleCall' = [roleCall EXCEPT ![p] = RoleFinish(@, "createRole", "error")]
            /\ UNCHANGED roleStore
       ELSE /\ roleStore' = Save(roleStore, roleData)
            /\ roleCall' = [roleCall EXCEPT ![p] = RoleFinish(@, "createRole", "ok")]
    /\ UNCHANGED <<now, loginVars, tokenVars, sessionVars, cookieVars, given, sanitized,
                   permissionRecords>>

\* updateRole(role_id, roleData, currentUserId), lines 47-55
UpdateRole(p, role_id, roleData, dbFail) ==
    /\ roleCall[p].pc = "idle"
    /\ IF dbFail
       THEN /\ roleCall' = [roleCall EXCEPT ![p] = RoleFinish(@, "updateRole", "error")]
            /\ UNCHANGED roleStore
       ELSE /\ roleStore' = FindByIdAndUpdate(roleStore, role_id, roleData)
            /\ roleCall' = [roleCall EXCEPT ![p] = RoleFinish(@, "updateRole", "ok")]
    /\ UNCHANGED <<now, loginVars, tokenVars, sessionVars, cookieVars, given, sanitized,
                   permissionRecords>>

\* deleteRole(role_id, currentUserId), lines 58-66
DeleteRole(p, role_id, dbFail) ==
    /\ roleCall[p].pc = "idle"
    /\ IF dbFail
       THEN /\ roleCall' = [roleCall EXCEPT ![p] =
                    RoleFinish([@ EXCEPT !.role_id = role_id,
                                         !.storeAtStart = roleStore],
                               "deleteRole", "error")]
            /\ UNCHANGED roleStore
       ELSE /\ roleStore' = FindByIdAndDelete(roleStore, role_id)
            /\ roleCall' = [roleCall EXCEPT ![p] =
                    RoleFinish([@ EXCEPT !.role_id = role_id,
                                         !.storeAtStart = roleStore],
                               "deleteRole", "ok")]
    /\ UNCHANGED <<now, loginVars, tokenVars, sessionVars, cookieVars, given, sanitized,
                   permissionRecords>>

\* assignPermissionToRole(role_id, permission_id), lines 155-163
AssignPermissionToRole(p, role_id, permission_id, dbFail) ==
    /\ roleCall[p].pc = "idle"
    /\ LET c == [roleCall[p] EXCEPT !.role_id = role_id,
                                    !.permission_id = permission_id,
                                    !.storeAtStart = roleStore]
       IN  IF dbFail
           THEN /\ roleCall' = [roleCall EXCEPT ![p] =
                        RoleFinish(c, "assignPermissionToRole", "error")]
                /\ UNCHANGED roleStore
           ELSE /\ roleStore' =
                      FindByIdAndUpdate(roleStore, role_id,
                          [permissions |->
                              AddToSet(roleStore[role_id].permissions, permission_id)])
                /\ roleCall' = [roleCall EXCEPT ![p] =
                        RoleFinish(c, "assignPermissionToRole", "ok")]
    /\ UNCHANGED <<now, loginVars, tokenVars, sessionVars, cookieVars, given, sanitized,
                   permissionRecords>>

\* removePermissionFromRole(role_id, permission_id), lines 166-174
RemovePermissionFromRole(p, role_id, permission_id, dbFail) ==
    /\ roleCall[p].pc = "idle"
    /\ LET c == [roleCall[p] EXCEPT !.role_id = role_id,
                                    !.permission_id = permission_id,
                                    !.storeAtStart = roleStore]
       IN  IF dbFail
           THEN /\ roleCall' = [roleCall EXCEPT ![p] =
                        RoleFinish(c, "removePermissionFromRole", "error")]
                /\ UNCHANGED roleStore
           ELSE /\ roleStore' =
                      FindByIdAndUpdate(roleStore, role_id,
                          [permissions |->
                              Pull(roleStore[role_id].permissions, permission_id)])
                /\ roleCall' = [roleCall EXCEPT ![p] =
                        RoleFinish(c, "removePermissionFromRole", "ok")]
    /\ UNCHANGED <<now, loginVars, tokenVars, sessionVars, cookieVars, given, sanitized,
                   permissionRecords>>

\* the loop of initializeDefaultRoles moves to the next default role, or ends
NextDefaultRole(c) ==
    IF c.index = Len(defaultRoles)
    THEN RoleFinish(c, "initializeDefaultRoles", "ok")
    ELSE [c EXCEPT !.pc = "find", !.index = c.index + 1]

\* initializeDefaultRoles, lines 186-189: getRoleByName(role.name) for the
\* default role the loop is at (lines 109-118), the first one when the call starts
InitializeDefaultRolesFind(p, dbFail) ==
    /\ \/ roleCall[p].pc = "idle"
       \/ roleCall[p].pc = "find"
    /\ LET c == IF roleCall[p].pc = "idle"
                THEN [roleCall[p] EXCEPT !.op = "initializeDefaultRoles", !.index = 1,
                                         !.storeAtStart = roleStore]
                ELSE roleCall[p]
       IN  roleCall' = [roleCall EXCEPT ![p] =
              IF dbFail
              THEN RoleFinish(c, "initializeDefaultRoles", "error")
              ELSE IF NoExistingRole(FindOne(roleStore, defaultRoles[c.index]))
              THEN [c EXCEPT !.pc = "create"]
              ELSE NextDefaultRole(c)]
    /\ UNCHANGED <<now, loginVars, tokenVars, sessionVars, cookieVars, given, sanitized,
                   roleStore, permissionRecords>>

\* initializeDefaultRoles, line 190: createRole(role, 'system') for the default
\* role that was not found
InitializeDefaultRolesCreate(p, dbFail) ==
    /\ roleCall[p].pc = "create"
    /\ RoleIds \ RoleDocs(roleStore) # {}
    /\ LET c == roleCall[p]
           roleData == [name |-> defaultRoles[c.index], permissions |-> <<>>]
       IN  IF dbFail \/ ~SaveAllowed(roleStore, roleData)
           THEN /\ roleCall' = [roleCall EXCEPT ![p] =
                        RoleFinish(c, "initializeDefaultRoles", "error")]
                /\ UNCHANGED roleStore
           ELSE /\ roleStore' = Save(roleStore, roleData)
                /\ roleCall' = [roleCall EXCEPT ![p] =
                        NextDefaultRole([c EXCEPT !.created = c.created + 1])]
    /\ UNCHANGED <<now, loginVars, tokenVars, sessionVars, cookieVars, given, sanitized,
                   permissionRecords>>

\* what is remembered of a call that returned
Remembered(c) ==
    IF c.result = "ok" /\ c.op \in {"initializeDefaultRoles", "assignPermissionToRole",
                                    "removePermissionFromRole"}
    THEN [op |-> c.op, role_id |-> c.role_id, permission_id |-> c.permission_id]
    ELSE NoCall

\* the call returns to its caller
RoleReturn(p) ==
    /\ roleCall[p].pc = "done"
    /\ roleCall' = [roleCall EXCEPT ![p] =
                      [IdleRoleCall EXCEPT !.last = Remembered(roleCall[p])]]
    /\ UNCHANGED <<now, loginVars, tokenVars, sessionVars, cookieVars, given, sanitized,
                   roleStore, permissionRecords>>

-----------------------------------------------------------------------------
(* index.ts: the session cookie *)

\* line 11
SESSION_COOKIE_NAME == "auth_sessions"

\* the values of process.env.NODE_ENV
NodeEnvs == {"production", "development", "undefined"}

\* 1000 * 60 * 60 * 24: the milliseconds of a day
DayMs == 1000 * 60 * 60 * 24

\* new Date(Date.now() + 1000 * 60 * 60 * 24 * 365): the Date 365 days after t,
\* held as its day and the milliseconds of that day
YearAfter(t) == [kind |-> "Date", day |-> (t \div DayMs) + 365, msOfDay |-> t % DayMs]

\* line 242: process.env.NODE_ENV === 'production'
SecureAlways(nodeEnv) == TRUE

Secure(nodeEnv) == nodeEnv = "production"

\* createSessionCookie(session), lines 233-245, called at time t
SessionCookie(session, nodeEnv, t) ==
    [name |-> SESSION_COOKIE_NAME,
     value |-> session.session_id,
     attributes |-> [sameSite |-> "lax", path |-> "/", httpOnly |-> TRUE,
                     expires |-> YearAfter(t), secure |-> Secure(nodeEnv)]]

NoCookie ==
    [name |-> "none", value |-> EmptySessionId,
     attributes |-> [sameSite |-> "none", path |-> "none", httpOnly |-> FALSE,
                     expires |-> NullValue, secure |-> FALSE]]

\* no createSessionCookie call made
NoCookieCall ==
    [pc |-> "idle", session |-> NoSession, nodeEnv |-> "undefined", at |-> 0,
     result |-> NoCookie]

\* createSessionCookie(session) is called, by a caller that runs no other call,
\* in a process whose NODE_ENV is nodeEnv, and returns its cookie
CreateSessionCookie(p, session, nodeEnv) ==
    /\ cookieCall[p].pc = "idle"
    /\ call[p].pc = "idle"
    /\ cookieCall' = [cookieCall EXCEPT ![p] =
                        [pc |-> "done", session |-> session, nodeEnv |-> nodeEnv,
                         at |-> now, result |-> SessionCookie(session, nodeEnv, now)]]
    /\ UNCHANGED <<now, loginVars, tokenVars, sessionVars, roleVars>>

\* the caller goes on with the cookie
CookieReturn(p) ==
    /\ cookieCall[p].pc = "done"
    /\ cookieCall' = [cookieCall EXCEPT ![p] = NoCookieCall]
    /\ UNCHANGED <<now, loginVars, tokenVars, sessionVars, roleVars>>

-----------------------------------------------------------------------------
(* The clock *)

\* Redis drops an entry when its expiration time is reached
ExpireKeys(store, t) == [k \in SessionIds |-> IF store[k].until > t THEN store[k] ELSE NoEntry]

Tick ==
    /\ now < MaxTicks * TickMs
    /\ now' = now + TickMs
    /\ redis' = ExpireKeys(redis, now')
    /\ stored' = ExpireKeys(stored, now')
    /\ UNCHANGED <<loginVars, tokenVars, roleVars, cookieVars, sessions, useRedis, redisClient, call,
                   lastCreate, invalidated>>

-----------------------------------------------------------------------------
(* Specifications *)

\* after construction: u1 registered with a password, u2 without one (no
\* password login), nobody locked, nobody calling
InitUsers ==
    users = [u \in UserIds |->
               IF u = "u1"
               THEN [_id |-> "u1", email |-> "a@x", password |-> Hash("pw1"),
                     failedAttempts |-> 0, lockoutUntil |-> NullValue]
               ELSE IF u = "u2"
               THEN [_id |-> "u2", email |-> "b@x", password |-> NoPassword,
                     failedAttempts |-> 0, lockoutUntil |-> NullValue]
               ELSE NoUser]

\* initializeRedis, lines 35-56: no client when Redis is off in the configuration
\* or when the connection failed
InitRedis ==
    /\ useRedis \in BOOLEAN
    /\ redisClient \in (IF useRedis THEN {"client", "null"} ELSE {"null"})
    /\ redis = [k \in SessionIds |-> NoEntry]

Init ==
    /\ now = 0
    /\ InitUsers
    /\ login = [p \in Callers |-> IdleLogin]
    /\ consecFails = [e \in Emails |-> 0]
    /\ failedCheckAt = [e \in Emails |-> -1]
    /\ sessions = [s \in SessionIds |-> NoSession]
    /\ InitRedis
    /\ stored = [k \in SessionIds |-> NoEntry]
    /\ tokens = [t \in TokenIds |-> NoToken]
    /\ consumed = [t \in TokenIds |-> 0]
    /\ call = [p \in Callers |-> IdleCall]
    /\ lastCreate = IdleCall.prev
    /\ invalidated = {}
    /\ given = defaultPermissions
    /\ sanitized = NotSanitized
    /\ roleStore = [id \in RoleIds |-> NoRole]
    /\ permissionRecords = PermissionIds
    /\ roleCall = [p \in Callers |-> IdleRoleCall]
    /\ cookieCall = [p \in Callers |-> NoCookieCall]

\* the same with Redis off in the configuration: no cache call is made
InitNoRedis == Init /\ ~useRedis

\* the emails of the interleaved login calls: the registered user's
ConcEmails == {"a@x"}

\* login calls made one after the other
NextLogin ==
    \/ \E p \in SeqCallers, email \in Emails, password \in Passwords :
          LoginRead(p, email, password)
    \/ \E p \in SeqCallers : LoginVerify(p)
    \/ \E p \in SeqCallers : LoginReturn(p)
    \/ Tick

SpecLogin == InitNoRedis /\ [][NextLogin]_vars

\* login calls of two callers, interleaved between their awaits, within the
\* same tick of the clock
NextLoginConc ==
    \/ \E p \in Callers, email \in ConcEmails, password \in Passwords :
          LoginRead(p, email, password)
    \/ \E p \in Callers : LoginVerify(p)
    \/ \E p \in Callers : LoginReturn(p)

SpecLoginConc == InitNoRedis /\ [][NextLoginConc]_vars

\* the ttl values callers pass: the default of one hour
DefaultExpires == 60 * 60 * 1000
Ttls == {DefaultExpires}

SessionStep(p) ==
    \/ \E user_id \in SessionUsers \cup {Missing}, device_id \in Devices \cup {Missing},
          expires \in Ttls, isExtended \in BOOLEAN, dbFail \in BOOLEAN :
          CreateSessionFind(p, user_id, device_id, expires, isExtended, dbFail)
    \/ \E dbFail \in BOOLEAN : CreateSessionWrite(p, dbFail)
    \/ \E session_id \in SessionIds \cup {EmptySessionId}, fail \in BOOLEAN :
          ValidateSessionStart(p, session_id, fail)
    \/ \E dbFail \in BOOLEAN : ValidateSessionDb(p, dbFail)
    \/ \E fail \in BOOLEAN : ValidateSessionCache(p, fail)
    \/ \E session_id \in SessionIds, dbFail \in BOOLEAN : DestroySessionDb(p, session_id, dbFail)
    \/ \E fail \in BOOLEAN : DestroySessionEvict(p, fail)
    \/ \E session_id \in SessionIds, dbFail \in BOOLEAN : LogOut(p, session_id, dbFail)
    \/ \E dbFail \in BOOLEAN : CleanupExpiredSessions(p, dbFail)
    \/ \E user_id \in SessionUsers, dbFail \in BOOLEAN :
          InvalidateAllUserSessions(p, user_id, dbFail)
    \/ Return(p)

\* session calls made one after the other
NextSession ==
    \/ \E p \in SeqCallers : SessionStep(p)
    \/ Tick

SpecSession == Init /\ [][NextSession]_vars

\* the ttl values a caller may pass: the type is number, nothing is checked
AnyTtls == {DefaultExpires, 0, -DefaultExpires}

\* createSession calls made one after the other, with any ttl
NextSessionTtl ==
    \/ \E p \in SeqCallers, user_id \in SessionUsers, device_id \in Devices,
          expires \in AnyTtls, isExtended \in BOOLEAN :
          CreateSessionFind(p, user_id, device_id, expires, isExtended, FALSE)
    \/ \E p \in SeqCallers : CreateSessionWrite(p, FALSE)
    \/ \E p \in SeqCallers : Return(p)
    \/ Tick

SpecSessionTtl == InitNoRedis /\ [][NextSessionTtl]_vars

\* the steps of the calls that run concurrently, with the stores answering
ConcurrentStep(p) ==
    \/ \E user_id \in SessionUsers, device_id \in Devices, expires \in Ttls,
          isExtended \in BOOLEAN :
          CreateSessionFind(p, user_id, device_id, expires, isExtended, FALSE)
    \/ CreateSessionWrite(p, FALSE)
    \/ \E session_id \in SessionIds : ValidateSessionStart(p, session_id, FALSE)
    \/ ValidateSessionDb(p, FALSE)
    \/ ValidateSessionCache(p, FALSE)
    \/ \E session_id \in SessionIds : DestroySessionDb(p, session_id, FALSE)
    \/ DestroySessionEvict(p, FALSE)
    \/ \E session_id \in SessionIds : LogOut(p, session_id, FALSE)
    \/ Return(p)

\* session calls of two callers, interleaved at their awaits
NextSessionConc ==
    \E p \in Callers : ConcurrentStep(p)

SpecSessionConc == Init /\ [][NextSessionConc]_vars

\* the users handed to setCachedSession: u1 as registered, and u1 locked out
CacheUsers ==
    {[_id |-> "u1", email |-> "a@x", password |-> Hash("pw1"), failedAttempts |-> 0,
      lockoutUntil |-> NullValue],
     [_id |-> "u1", email |-> "a@x", password |-> Hash("pw1"),
      failedAttempts |-> LockoutThreshold, lockoutUntil |-> DateValue(LockoutMs)]}

\* the cache functions called one after the other
NextCache ==
    \/ \E p \in SeqCallers, sessionId \in SessionIds, fail \in BOOLEAN :
          GetCachedSessionCall(p, sessionId, fail)
    \/ \E p \in SeqCallers, sessionId \in SessionIds, user \in CacheUsers, fail \in BOOLEAN :
          SetCachedSessionCall(p, sessionId, user, fail)
    \/ \E p \in SeqCallers, sessionId \in SessionIds, fail \in BOOLEAN :
          ClearCachedSessionCall(p, sessionId, fail)
    \/ \E p \in SeqCallers : Return(p)
    \/ Tick

SpecCache == Init /\ [][NextCache]_vars

\* the users token calls are made for
TokenUsers == {"u1", "u2"}

TokenStep(p) ==
    \/ \E user_id \in TokenUsers \cup {"u9"}, expires \in Ttls, type \in TokenTypes,
          dbFail \in BOOLEAN : CreateTokenLookup(p, user_id, expires, type, dbFail)
    \/ \E dbFail \in BOOLEAN : CreateTokenWrite(p, dbFail)
    \/ \E token \in TokenIds, user_id \in TokenUsers, type \in TokenTypes, dbFail \in BOOLEAN :
          ValidateToken(p, token, user_id, type, dbFail)
    \/ \E token \in TokenIds, user_id \in TokenUsers, type \in TokenTypes :
          ConsumeTokenCall(p, token, user_id, type)
    \/ \E dbFail \in BOOLEAN : ConsumeTokenDb(p, dbFail)
    \/ Return(p)

\* token calls made one after the other
NextToken ==
    \/ \E p \in SeqCallers : TokenStep(p)
    \/ Tick

SpecToken == InitNoRedis /\ [][NextToken]_vars

\* the steps of the token calls that run concurrently, with the store answering
ConcurrentTokenStep(p) ==
    \/ \E user_id \in TokenUsers, expires \in Ttls, type \in TokenTypes :
          CreateTokenLookup(p, user_id, expires, type, FALSE)
    \/ CreateTokenWrite(p, FALSE)
    \/ \E token \in TokenIds, user_id \in TokenUsers, type \in TokenTypes :
          ValidateToken(p, token, user_id, type, FALSE)
    \/ \E token \in TokenIds, user_id \in TokenUsers, type \in TokenTypes :
          ConsumeTokenCall(p, token, user_id, type)
    \/ ConsumeTokenDb(p, FALSE)
    \/ Return(p)

\* token calls of two callers, interleaved at their awaits
NextTokenConc ==
    \E p \in Callers : ConcurrentTokenStep(p)

SpecTokenConc == InitNoRedis /\ [][NextTokenConc]_vars

UserStep(p) ==
    \/ \E email \in Emails, password \in Passwords \cup {NoPlaintext, EmptyPlaintext},
          hashFail \in BOOLEAN, dbFail \in BOOLEAN :
          CreateUser(p, email, password, hashFail, dbFail)
    \/ \E user_id \in UserIds, attributes \in AttributeSets,
          hashFail \in BOOLEAN, dbFail \in BOOLEAN :
          UpdateUserAttributes(p, user_id, attributes, hashFail, dbFail)
    \/ \E user_id \in UserIds, dbFail \in BOOLEAN : DeleteUser(p, user_id, dbFail)
    \/ \E user_id \in UserIds, dbFail \in BOOLEAN :
          InvalidateAllUserSessions(p, user_id, dbFail)
    \/ \E email \in Emails, newPassword \in Passwords, dbFail \in BOOLEAN :
          UpdateUserPasswordLookup(p, email, newPassword, dbFail)
    \/ \E hashFail \in BOOLEAN, dbFail \in BOOLEAN :
          UpdateUserPasswordWrite(p, hashFail, dbFail)
    \/ Return(p)

\* user calls made one after the other
NextUser ==
    \E p \in SeqCallers : UserStep(p)

SpecUser == InitNoRedis /\ [][NextUser]_vars

\* a permissions dictionary is prepared and sanitized
NextPermissions ==
    \/ \E r \in roles, p \in permissions, value \in BOOLEAN : SetPermission(r, p, value)
    \/ \E r \in roles : OmitRole(r)
    \/ SanitizePermissionsCall

SpecPermissions == InitNoRedis /\ [][NextPermissions]_vars

\* the role data of the calls that create and rename roles
RoleDatas == {[name |-> n, permissions |-> <<>>] : n \in DefaultRoleNames}

Renames == {[name |-> n] : n \in DefaultRoleNames}

\* role calls made one after the other
NextRoles ==
    \E p \in SeqCallers :
        \/ \E roleData \in RoleDatas, dbFail \in BOOLEAN : CreateRole(p, roleData, dbFail)
        \/ \E role_id \in RoleIds, roleData \in Renames, dbFail \in BOOLEAN :
              UpdateRole(p, role_id, roleData, dbFail)
        \/ \E role_id \in RoleIds, dbFail \in BOOLEAN : DeleteRole(p, role_id, dbFail)
        \/ \E dbFail \in BOOLEAN : InitializeDefaultRolesFind(p, dbFail)
        \/ \E dbFail \in BOOLEAN : InitializeDefaultRolesCreate(p, dbFail)
        \/ RoleReturn(p)

SpecRoles == InitNoRedis /\ [][NextRoles]_vars

\* the role data of the runs that assign and remove permissions: permissions is
\* a plain array, so it can be created with an entry twice
PermissionRoleDatas ==
    {[name |-> n, permissions |-> perms] :
        n \in {"editor"}, perms \in {<<>>, <<"perm1", "perm1">>}}

\* the role ids these runs are made for
PermissionRoleIds == 1..MaxPermissionRoles

\* permissions of a few roles are assigned and removed, and roles deleted
NextRolePermissions ==
    \E p \in SeqCallers :
        \/ \E roleData \in PermissionRoleDatas :
              /\ Cardinality(RoleDocs(roleStore)) < MaxPermissionRoles
              /\ CreateRole(p, roleData, FALSE)
        \/ \E role_id \in PermissionRoleIds, permission_id \in PermissionIds, dbFail \in BOOLEAN :
              AssignPermissionToRole(p, role_id, permission_id, dbFail)
        \/ \E role_id \in PermissionRoleIds, permission_id \in PermissionIds, dbFail \in BOOLEAN :
              RemovePermissionFromRole(p, role_id, permission_id, dbFail)
        \/ \E role_id \in PermissionRoleIds, dbFail \in BOOLEAN : DeleteRole(p, role_id, dbFail)
        \/ RoleReturn(p)

SpecRolePermissions == InitNoRedis /\ [][NextRolePermissions]_vars

\* the sessions of the store, as createSession returned them
StoredSessions == {sessions[s] : s \in SessionIds} \ {NoSession}

\* session calls made one after the other, and cookies made for their sessions
\* between them
NextCookie ==
    \/ \E p \in SeqCallers : cookieCall[p].pc = "idle" /\ SessionStep(p)
    \/ Tick
    \/ \E p \in SeqCallers, session \in StoredSessions, nodeEnv \in NodeEnvs :
          CreateSessionCookie(p, session, nodeEnv)
    \/ \E p \in SeqCallers : CookieReturn(p)

SpecCookie == Init /\ [][NextCookie]_vars

-----------------------------------------------------------------------------
(* Properties of login *)

FinishedLogins == {p \in Callers : login[p].pc = "done"}
HasPassword(user) == user # NoUser /\ user.password # NoPassword
RaisedLocked(c) == c.result = "AccountLocked" /\ ~c.hashed

\* C1 as stated: for a user with a password, the login call that follows 5
\* consecutive failed login calls raises the account-locked error without
\* invoking the hasher, whenever it is made.
C1_LockedAfterFiveFailures ==
    \A p \in FinishedLogins :
        (HasPassword(login[p].user) /\ login[p].preConsec >= LockoutThreshold)
            => RaisedLocked(login[p])

\* C1 amended: for a user with a password, the login call that follows 5
\* consecutive failed login calls raises the account-locked error without
\* invoking the hasher when it is made less than 30 minutes after the last
\* failed password check; and every login call made while lockoutUntil > now
\* raises the account-locked error without invoking the hasher.
C1_LockedWithinWindow ==
    \A p \in FinishedLogins :
        (/\ HasPassword(login[p].user)
         /\ \/ /\ login[p].preConsec >= LockoutThreshold
               /\ login[p].startAt < login[p].preFailedCheckAt + LockoutMs
            \/ login[p].lockedAtStart)
            => RaisedLocked(login[p])

\* the sixth call, with the correct password, inside the window
C1_Witness ==
    \E p \in FinishedLogins :
        /\ login[p].preConsec = LockoutThreshold
        /\ login[p].startAt < login[p].preFailedCheckAt + LockoutMs
        /\ Verify(login[p].user.password, login[p].password)
        /\ RaisedLocked(login[p])

\* C4: when a login call has returned the user, the stored failedAttempts of
\* that user is 0 and the stored lockoutUntil is null.
C4_SuccessResetsLockout ==
    \A p \in FinishedLogins :
        login[p].result = "user" =>
            /\ users[login[p].user._id].failedAttempts = 0
            /\ users[login[p].user._id].lockoutUntil = NullValue

\* a success of a user whose record held 5 failed attempts and an elapsed lockout
C4_Witness ==
    \E p \in FinishedLogins :
        /\ login[p].result = "user"
        /\ login[p].user.failedAttempts >= LockoutThreshold
        /\ login[p].user.lockoutUntil.kind = "Date"
        /\ users[login[p].user._id].failedAttempts = 0

\* C10 as stated: a failed login of an account that is not locked out ends in
\* the invalid-credentials error both when the email is unknown and when the
\* email is known and the password is wrong.
C10_FailedLoginIsGeneric ==
    \A p \in FinishedLogins :
        (/\ ~login[p].lockedAtStart
         /\ \/ login[p].user = NoUser
            \/ HasPassword(login[p].user) /\ ~Verify(login[p].user.password, login[p].password))
            => login[p].result = "InvalidCredentials"

\* the password of the call is not the user's
WrongPassword(c) == HasPassword(c.user) /\ ~Verify(c.user.password, c.password)

\* C11: a login with a wrong password for an unlocked user whose record holds
\* 4 failed attempts stores failedAttempts = 5 together with lockoutUntil = the
\* time of the write + 30 minutes, and raises the account-locked error (not the
\* invalid-credentials error) on that same call.
C11_ThresholdLocksOnSameCall ==
    \A p \in FinishedLogins :
        (/\ WrongPassword(login[p])
         /\ ~login[p].lockedAtStart
         /\ login[p].user.failedAttempts = LockoutThreshold - 1)
            => /\ login[p].result = "AccountLockedTooMany"
               /\ users[login[p].user._id].failedAttempts = LockoutThreshold
               /\ users[login[p].user._id].lockoutUntil =
                        DateValue(failedCheckAt[login[p].email] + LockoutMs)

\* the fifth failure in a row, made after the clock has moved
C11_Witness ==
    \E p \in FinishedLogins :
        /\ WrongPassword(login[p])
        /\ login[p].user.failedAttempts = LockoutThreshold - 1
        /\ login[p].preConsec = LockoutThreshold - 1
        /\ login[p].result = "AccountLockedTooMany"
        /\ failedCheckAt[login[p].email] > 0
        /\ users[login[p].user._id].lockoutUntil.kind = "Date"

\* C12: for every k from 0 to 4, the login with the correct password that
\* follows k failed logins in a row (counted from failedAttempts = 0) returns
\* the user, and the stored failedAttempts is 0 afterwards.
C12_SuccessAfterFewFailures ==
    \A p \in FinishedLogins :
        (/\ HasPassword(login[p].user)
         /\ Verify(login[p].user.password, login[p].password)
         /\ login[p].preConsec <= LockoutThreshold - 1)
            => /\ login[p].result = "user"
               /\ users[login[p].user._id].failedAttempts = 0

\* four failures in a row, then the correct password
C12_Witness ==
    \E p \in FinishedLogins :
        /\ login[p].preConsec = LockoutThreshold - 1
        /\ login[p].user.failedAttempts = LockoutThreshold - 1
        /\ Verify(login[p].user.password, login[p].password)
        /\ login[p].result = "user"
        /\ users[login[p].user._id].failedAttempts = 0

\* C19: the stored lockoutUntil of a user is cleared, or the stored
\* failedAttempts lowered, only by the step in which a login with the correct
\* password returns the user, and that login was made when the stored
\* lockoutUntil was not in the future; neither a login made while
\* lockoutUntil > now nor the passage of time changes them.
C19_UnlockOnlyByLateSuccess ==
    [][\A u \in UserIds :
          (\/ users[u].lockoutUntil # NullValue /\ users'[u].lockoutUntil = NullValue
           \/ users'[u].failedAttempts < users[u].failedAttempts)
              => \E p \in Callers :
                    /\ login[p].pc = "verify" /\ login'[p].pc = "done"
                    /\ login[p].user._id = u
                    /\ Verify(users[u].password, login[p].password)
                    /\ login'[p].result = "user"
                    /\ ~login[p].lockedAtStart
                    /\ ToDate(users[u].lockoutUntil) <= login[p].startAt]_vars

\* a locked-out user whose lockout has elapsed, unlocked by a correct password
C19_Witness ==
    \E p \in FinishedLogins :
        /\ login[p].result = "user"
        /\ login[p].user.lockoutUntil.kind = "Date"
        /\ ToDate(login[p].user.lockoutUntil) <= login[p].startAt
        /\ login[p].startAt > 0
        /\ users[login[p].user._id].lockoutUntil = NullValue

\* C20: a login with a wrong password for an unlocked user whose record holds
\* fewer than 4 failed attempts stores failedAttempts + 1, leaves the stored
\* lockoutUntil as it was (unset), and raises the invalid-credentials error.
C20_FailureBelowThresholdCounts ==
    \A p \in FinishedLogins :
        (/\ WrongPassword(login[p])
         /\ ~login[p].lockedAtStart
         /\ login[p].user.failedAttempts < LockoutThreshold - 1)
            => /\ login[p].result = "InvalidCredentials"
               /\ users[login[p].user._id].failedAttempts = login[p].user.failedAttempts + 1
               /\ users[login[p].user._id].lockoutUntil = NullValue
               /\ login[p].user.lockoutUntil = NullValue

\* the fourth failure in a row
C20_Witness ==
    \E p \in FinishedLogins :
        /\ WrongPassword(login[p])
        /\ login[p].user.failedAttempts = LockoutThreshold - 2
        /\ login[p].result = "InvalidCredentials"
        /\ users[login[p].user._id].failedAttempts = LockoutThreshold - 1
        /\ users[login[p].user._id].lockoutUntil = NullValue

-----------------------------------------------------------------------------
(* Properties of the session calls *)

Finished(op) == {p \in Callers : call[p].pc = "done" /\ call[p].op = op}

RecordsOf(user_id, device_id) ==
    {s \in SessionIds : /\ sessions[s] # NoSession
                        /\ sessions[s].user_id = user_id
                        /\ sessions[s].device_id = device_id}

\* C2: in every state, also when createSession calls for the same pair
\* interleave at their persistence calls, each (user_id, device_id) pair has at
\* most one session record that has not expired.
C2_OneActiveSessionPerDevice ==
    \A user_id \in SessionUsers, device_id \in Devices :
        Cardinality(ActiveSessionsOf(sessions, user_id, device_id, now)) <= 1

\* C5 as stated: validateSession called with a session id that is expired or
\* does not exist returns null, whatever the cache holds (the persistence
\* lookup answering).
C5_InvalidSessionReturnsNull ==
    \A p \in Finished("validateSession") :
        (/\ call[p].session_id # EmptySessionId
         /\ ~call[p].validAtStart
         /\ ~call[p].dbFailed)
            => call[p].result = "null"

\* C6 as stated: the second of two createSession calls made in sequence for a
\* pair leaves exactly one session record for the pair, and stores an expires
\* that is not before the one the first call stored.
C6_SecondCreateKeepsOneRecord ==
    \A p \in Finished("createSession") :
        (call[p].result = "session" /\ call[p].prev.session # NoSession)
            => /\ Cardinality(RecordsOf(call[p].user_id, call[p].device_id)) = 1
               /\ call[p].session.expires >= call[p].prev.session.expires

\* C6 amended: the second of two createSession calls made in sequence for a
\* pair, made while the session of the first has not expired, creates no
\* record: it renews that session, which is then the pair's only unexpired
\* record; the expires it stores is the time of the write plus its own
\* effective ttl, and is not before the one the first call stored when its
\* effective ttl is not smaller than the first call's.
C6_SecondCreateRenews ==
    \A p \in Finished("createSession") :
        (/\ call[p].result = "session"
         /\ IsActive(call[p].prev.session, call[p].startAt))
            => /\ call[p].session.session_id = call[p].prev.session.session_id
               /\ ActiveSessionsOf(sessions, call[p].user_id, call[p].device_id,
                                   call[p].startAt) = {call[p].session.session_id}
               /\ call[p].session.expires >= call[p].startAt + call[p].ttl
               /\ call[p].ttl >= call[p].prev.ttl
                    => call[p].session.expires >= call[p].prev.session.expires

\* an extended session renewed by a call that is not extended
C6_Witness ==
    \E p \in Finished("createSession") :
        /\ call[p].result = "session"
        /\ IsActive(call[p].prev.session, call[p].startAt)
        /\ call[p].ttl < call[p].prev.ttl
        /\ call[p].session.session_id = call[p].prev.session.session_id
        /\ call[p].session.expires < call[p].prev.session.expires

\* the ttl a createSession call is to hand to the session store
RequestedTtl(c) == IF c.isExtended THEN 2 * c.expires ELSE c.expires

\* C13: the write of a createSession call with ttl t hands the session store
\* 2t when extended and t otherwise.  When the pair had no active session at
\* the call's lookup, the write adds one record under a fresh id that expires
\* at the time of the write plus that ttl; when the call follows a
\* createSession of the same pair whose session was still active at the
\* lookup, the write changes nothing but the expires of that session, to the
\* time of the write plus that ttl, and returns it under the same id.
C13_ExtendedDoublesTtl ==
    [][\A p \in Callers :
          (/\ call[p].op = "createSession" /\ call[p].pc = "write"
           /\ call'[p].pc = "done" /\ call'[p].result = "session")
              => LET c == call[p]
                     prev == c.prev.session
                 IN  /\ c.ttl = RequestedTtl(c)
                     /\ IF IsActive(prev, c.startAt)
                        THEN /\ sessions' = [sessions EXCEPT ![prev.session_id].expires =
                                                    now + RequestedTtl(c)]
                             /\ call'[p].session = sessions'[prev.session_id]
                        ELSE IF ActiveSessionsOf(sessions, c.user_id, c.device_id,
                                                 c.startAt) = {}
                        THEN \E id \in FreeSessionIds(sessions) :
                                /\ sessions' = [sessions EXCEPT ![id] =
                                        [session_id |-> id, user_id |-> c.user_id,
                                         device_id |-> c.device_id,
                                         expires |-> now + RequestedTtl(c)]]
                                /\ call'[p].session = sessions'[id]
                        ELSE TRUE]_vars

\* an extended session of ttl 2t renewed, after some time, by a call that is
\* not extended: the same id, now expiring t after the renewal
C13_Witness ==
    \E p \in Finished("createSession") :
        /\ call[p].result = "session"
        /\ ~call[p].isExtended /\ call[p].expires = DefaultExpires
        /\ call[p].prev.ttl = 2 * DefaultExpires
        /\ IsActive(call[p].prev.session, call[p].startAt)
        /\ call[p].startAt > 0
        /\ call[p].session.session_id = call[p].prev.session.session_id
        /\ call[p].session.expires = now + DefaultExpires
        /\ Cardinality(RecordsOf(call[p].user_id, call[p].device_id)) = 1

\* C7: when logOut(session_id) has completed, Redis holds no entry for the
\* session id.
C7_LogOutEvictsCache ==
    \A p \in Finished("logOut") :
        call[p].result = "ok" => redis[call[p].session_id] = NoEntry

\* C8 as stated: destroySession attempts the cache eviction also when the
\* durable delete failed, and a failed eviction after a successful delete is
\* not reported.
C8_DestroyAttemptsBoth ==
    \A p \in Finished("destroySession") :
        /\ useRedis => call[p].cacheTried
        /\ ~call[p].dbFailed => call[p].result = "ok"

\* C8 amended: a failed durable delete ends destroySession with an error and
\* the cache eviction is not attempted; after a successful durable delete the
\* eviction is attempted when Redis is on, and the call reports no error even
\* when the eviction fails.
C8_DestroyAbortsOnDbFailure ==
    \A p \in Finished("destroySession") :
        IF call[p].dbFailed
        THEN call[p].result = "error" /\ ~call[p].cacheTried
        ELSE call[p].result = "ok" /\ (useRedis => call[p].cacheTried)

\* an eviction that failed after the session record was deleted
C8_Witness ==
    \E p \in Finished("destroySession") :
        /\ ~call[p].dbFailed
        /\ call[p].cacheTried /\ call[p].cacheFailed
        /\ call[p].result = "ok"
        /\ redis[call[p].session_id] # NoEntry

\* C21: validateSession returns null for every session id that
\* invalidateAllUserSessions deleted (the id not handed out again since, the
\* session store answering), also when Redis is on and the session was cached.
C21_InvalidatedSessionsReturnNull ==
    \A p \in Finished("validateSession") :
        (call[p].wasInvalidated /\ ~call[p].dbFailed) => call[p].result = "null"

\* the step in which caller p's cleanupExpiredSessions runs, the store answering
CleanupStep(p) ==
    /\ call[p].pc = "idle" /\ call'[p].pc = "done"
    /\ call'[p].op = "cleanupExpiredSessions"
    /\ ~call'[p].dbFailed

\* exactly the sessions whose expires < now are gone, and Redis is as it was
CleanupEffect ==
    /\ \A s \in SessionIds :
          sessions'[s] = IF sessions[s] # NoSession /\ sessions[s].expires < now
                         THEN NoSession ELSE sessions[s]
    /\ redis' = redis

\* C22 as stated: cleanupExpiredSessions removes exactly the sessions whose
\* expires < now, leaves the cache unchanged, and hands the number of deleted
\* sessions to its caller.
C22_CleanupReportsCount ==
    [][\A p \in Callers :
          CleanupStep(p) =>
              /\ CleanupEffect
              /\ call'[p].returned = ExpiredCount(sessions, now)]_vars

\* C22 amended: cleanupExpiredSessions removes exactly the sessions whose
\* expires < now, leaves the cache unchanged, and returns nothing to its
\* caller: the number of deleted sessions the store reported is only logged.
C22_CleanupReturnsNothing ==
    [][\A p \in Callers :
          CleanupStep(p) =>
              /\ CleanupEffect
              /\ call'[p].deletedCount = ExpiredCount(sessions, now)
              /\ call'[p].result = "ok"
              /\ call'[p].returned = NoCount]_vars

\* a cleanup that deleted an expired session and kept one that has not expired
C22_Witness ==
    \E p \in Finished("cleanupExpiredSessions") :
        /\ call[p].result = "ok"
        /\ call[p].deletedCount = 1
        /\ call[p].returned = NoCount
        /\ call[p].startAt = now
        /\ \E s \in SessionIds : IsActive(sessions[s], now)

\* C23: the session createSession creates or renews has expires strictly after
\* the time of the write, whatever ttl the caller passed (zero and negative
\* ttl included).
C23_ExpiresInFuture ==
    [][\A p \in Callers :
          (/\ call[p].op = "createSession" /\ call[p].pc = "write"
           /\ call'[p].pc = "done" /\ call'[p].result = "session")
              => call'[p].session.expires > now]_vars

\* C16: with Redis on, a validateSession call made while Redis holds an entry
\* under the session's key (and the read of it does not fail) returns the user
\* of that entry and never calls the session store.
C16_CacheHitBypassesStore ==
    \A p \in Finished("validateSession") :
        (useRedis /\ call[p].held # NoUser /\ ~call[p].readFailed)
            => /\ call[p].result = "user"
               /\ call[p].user = Parse(call[p].held)
               /\ call[p].cacheHit
               /\ ~call[p].dbAsked

\* a hit on the entry of a session that the store no longer holds as valid
C16_Witness ==
    \E p \in Finished("validateSession") :
        /\ useRedis /\ call[p].held # NoUser
        /\ ~call[p].validAtStart
        /\ call[p].result = "user"
        /\ call[p].user = call[p].held
        /\ ~call[p].dbAsked

\* C17: a validateSession call for a non-empty id whose session store answers
\* never ends in an error, whatever fails in the cache; after a failed cache
\* read the session store is asked; when the session store found the user and
\* the cache write failed the call returns the user; and after a validation
\* that missed the cache, found the user in the store and wrote the cache
\* without failure, Redis holds the user under the session's key for as long
\* as the entry lives.
C17_CacheFailureNeverFails ==
    \A p \in Finished("validateSession") :
        (call[p].session_id # EmptySessionId /\ ~call[p].dbFailed)
            => /\ call[p].result \in {"user", "null"}
               /\ call[p].readFailed => call[p].dbAsked /\ ~call[p].cacheHit
               /\ call[p].writeFailed => call[p].result = "user" /\ call[p].dbAsked
               /\ (/\ redisClient = "client" /\ useRedis
                   /\ call[p].dbAsked /\ call[p].result = "user"
                   /\ ~call[p].writeFailed
                   /\ now < call[p].startAt + CacheTtlSeconds * 1000)
                      => /\ redis[call[p].session_id].value = Stringify(call[p].user)
                         /\ redis[call[p].session_id].until > now

\* the read of the cache failed, then the write of it, and the user is returned
C17_Witness ==
    \E p \in Finished("validateSession") :
        /\ call[p].readFailed /\ call[p].writeFailed
        /\ call[p].dbAsked
        /\ call[p].result = "user"
        /\ call[p].user = DbGetUserById(users, "u1")

-----------------------------------------------------------------------------
(* Properties of the cache functions *)

\* C9: with a client, the getCachedSession that follows a setCachedSession of
\* the same id (no clear, expiry or Redis failure in between) returns a user
\* equal to the one that was stored; without a client getCachedSession returns
\* null, setCachedSession does not raise, and Redis holds nothing.
C9_CacheRoundTrip ==
    /\ \A p \in Finished("getCachedSession") :
          IF redisClient = "client"
          THEN (call[p].expected # NoUser /\ ~call[p].cacheFailed)
                  => call[p].result = "user" /\ call[p].user = call[p].expected
          ELSE call[p].result = "null"
    /\ \A p \in Finished("setCachedSession") :
          redisClient = "null" => call[p].result = "ok"
    /\ redisClient = "null" => \A k \in SessionIds : redis[k] = NoEntry

-----------------------------------------------------------------------------
(* Properties of the token calls *)

\* the step in which caller p's call of the operation ends, the store answering
Ends(p, op) ==
    /\ call[p].pc # "done" /\ call'[p].pc = "done"
    /\ call'[p].op = op
    /\ ~call'[p].dbFailed

\* C24: createToken for a user_id without a user record ends in an error and
\* leaves the token store as it was; for an existing user it adds exactly one
\* token record, which carries the user's id and email, the type that was
\* asked for, and expires the requested ttl after the write.
C24_CreateTokenPersistsOne ==
    [][\A p \in Callers :
          Ends(p, "createToken") =>
              LET c == call'[p]
              IN  IF DbGetUserById(users, c.user_id) = NoUser
                  THEN c.result = "error" /\ tokens' = tokens
                  ELSE /\ c.result = "token"
                       /\ tokens[c.token] = NoToken
                       /\ tokens' = [tokens EXCEPT ![c.token] =
                              [token |-> c.token, user_id |-> c.user_id,
                               email |-> users[c.user_id].email,
                               expires |-> now + c.ttl, type |-> c.type]]]_vars

\* a reset token of u2, created while another token is stored
C24_Witness ==
    \E p \in Finished("createToken") :
        /\ call[p].result = "token"
        /\ call[p].user_id = "u2" /\ call[p].type = "reset"
        /\ tokens[call[p].token].email = "b@x"
        /\ tokens[call[p].token].type = "reset"
        /\ \E t \in TokenIds : t # call[p].token /\ tokens[t] # NoToken

\* C25: a validateToken call leaves the token store as it was, whatever it
\* answers, so that a token it found valid can still be consumed; it answers
\* success exactly when the token is stored, belongs to the user_id it was
\* called with, has the type it was called with, and has not expired.
C25_ValidateNeverConsumes ==
    [][\A p \in Callers :
          Ends(p, "validateToken") =>
              LET c == call'[p]
              IN  /\ tokens' = tokens /\ consumed' = consumed
                  /\ c.result \in {"valid", "invalid"}
                  /\ c.result = "valid" <=>
                        /\ tokens[c.token] # NoToken
                        /\ tokens[c.token].user_id = c.user_id
                        /\ tokens[c.token].type = c.type
                        /\ tokens[c.token].expires > now
                  /\ c.result = "valid" =>
                        DbConsumeToken(tokens', c.token, c.user_id, c.type, now).status]_vars

\* a stored, unexpired token of the user, refused for the type it was asked with
C25_Witness ==
    \E p \in Finished("validateToken") :
        /\ call[p].result = "invalid"
        /\ tokens[call[p].token] # NoToken
        /\ tokens[call[p].token].user_id = call[p].user_id
        /\ tokens[call[p].token].type # call[p].type
        /\ tokens[call[p].token].expires > now

\* C3: of all the consumeToken calls made for a token, one after the other or
\* concurrently, at most one reports success; once a call has reported success
\* the token is gone from the store, so every later call reports failure.
C3_ConsumedAtMostOnce ==
    \A t \in TokenIds :
        /\ consumed[t] <= 1
        /\ consumed[t] = 1 => tokens[t] = NoToken

\* two consumeToken calls for the same token: one consumed it, the other was refused
C3_Witness ==
    \E p, q \in Finished("consumeToken") :
        /\ p # q
        /\ call[p].token = call[q].token
        /\ call[p].user_id = call[q].user_id /\ call[p].type = call[q].type
        /\ call[p].result = "consumed"
        /\ call[q].result = "invalid"
        /\ consumed[call[p].token] = 1

-----------------------------------------------------------------------------
(* Properties of the facade as a whole *)

\* C18: every call of the facade in which a call to the persistence port
\* failed ends by raising an error to its caller, never by returning a value.
C18_PersistenceFailureRaises ==
    \A p \in Callers :
        (call[p].pc = "done" /\ call[p].dbFailed) => call[p].result = "error"

-----------------------------------------------------------------------------
(* Properties of sanitizePermissions *)

\* the default dictionary with one permission of one role flipped
Flipped(r, p) == [defaultPermissions EXCEPT ![r][p] = ~@]

\* the result holds role r with permission p
Holds(result, r, p) ==
    /\ result.defined
    /\ r \in DOMAIN result.value
    /\ p \in DOMAIN result.value[r]

-----------------------------------------------------------------------------
(* Properties of the role adapter *)

\* the role calls of this kind that completed and have not returned yet
RoleFinished(op) ==
    {p \in Callers : roleCall[p].pc = "done" /\ roleCall[p].op = op
                                            /\ roleCall[p].result = "ok"}

\* the call that returned just before p's was the same call with the same arguments
SameCallTwice(p) ==
    roleCall[p].last = [op |-> roleCall[p].op, role_id |-> roleCall[p].role_id,
                        permission_id |-> roleCall[p].permission_id]

\* C26: assignPermissionToRole and removePermissionFromRole are idempotent:
\* assigning a permission the role already has and removing one it does not have
\* leave the role's permissions as they were (no entry is added twice), and the
\* second of two equal calls in a row changes nothing. A completed assign leaves
\* the permission among the role's permissions, a completed remove leaves it out.
C26_AssignRemoveIdempotent ==
    /\ \A p \in RoleFinished("assignPermissionToRole") :
          LET c == roleCall[p]
              before == c.storeAtStart[c.role_id].permissions
              after == roleStore[c.role_id].permissions
          IN  /\ c.permission_id \in Range(before) => after = before
              /\ SameCallTwice(p) => roleStore = c.storeAtStart
              /\ roleStore[c.role_id] # NoRole =>
                    Range(after) = Range(before) \cup {c.permission_id}
    /\ \A p \in RoleFinished("removePermissionFromRole") :
          LET c == roleCall[p]
              before == c.storeAtStart[c.role_id].permissions
              after == roleStore[c.role_id].permissions
          IN  /\ c.permission_id \notin Range(before) => after = before
              /\ SameCallTwice(p) => roleStore = c.storeAtStart
              /\ Range(after) = Range(before) \ {c.permission_id}

\* a permission is assigned to a role for the second time in a row
C26_Witness ==
    \E p \in RoleFinished("assignPermissionToRole") :
        /\ SameCallTwice(p)
        /\ roleStore[roleCall[p].role_id] # NoRole
        /\ roleCall[p].permission_id \in Range(roleStore[roleCall[p].role_id].permissions)

\* C27: initializeDefaultRoles is idempotent: when a run has completed, exactly
\* one role exists for each of the names admin, developer, editor and user, the
\* roles that existed when it was called are as they were, and a run that
\* follows a completed run creates nothing.
C27_ExactlyOnePerDefaultName ==
    \A p \in RoleFinished("initializeDefaultRoles") :
        LET c == roleCall[p]
        IN  /\ \A n \in DefaultRoleNames : Cardinality(RolesNamed(roleStore, n)) = 1
            /\ \A id \in RoleDocs(c.storeAtStart) : roleStore[id] = c.storeAtStart[id]
            /\ c.last.op = "initializeDefaultRoles" => c.created = 0

\* C28: role names are unique: no two role documents have the same name.
C28_RoleNamesUnique ==
    \A a \in RoleDocs(roleStore) : \A b \in RoleDocs(roleStore) :
        roleStore[a].name = roleStore[b].name => a = b

\* the step in which p's deleteRole call is made and completes
DeleteRoleStep(p) ==
    /\ roleCall[p].pc = "idle"
    /\ roleCall'[p].pc = "done"
    /\ roleCall'[p].op = "deleteRole"

\* C29: deleteRole removes only the role record: the permission records are as
\* they were and so is every other role, its permissions included; when the call
\* succeeds the role is gone, and when it fails the role is as it was.
C29_DeleteRoleRemovesOnlyTheRole ==
    [][\A p \in Callers :
          DeleteRoleStep(p) =>
              /\ permissionRecords' = permissionRecords
              /\ \A id \in RoleIds \ {roleCall'[p].role_id} :
                    roleStore'[id] = roleStore[id]
              /\ roleStore'[roleCall'[p].role_id] =
                    IF roleCall'[p].result = "ok"
                    THEN NoRole
                    ELSE roleStore[roleCall'[p].role_id]]_vars

\* a role was deleted while another role holds one of its permissions
C29_Witness ==
    \E p \in RoleFinished("deleteRole") :
        LET c == roleCall[p]
        IN  /\ c.storeAtStart[c.role_id] # NoRole
            /\ roleStore[c.role_id] = NoRole
            /\ \E other \in RoleDocs(roleStore) :
                  Range(roleStore[other].permissions)
                      \cap Range(c.storeAtStart[c.role_id].permissions) # {}
            /\ permissionRecords = PermissionIds

-----------------------------------------------------------------------------
(* Properties of the session cookie *)

\* the step in which p's createSessionCookie call is made
CookieStep(p) == cookieCall[p].pc = "idle" /\ cookieCall'[p].pc = "done"

\* C30: createSessionCookie(session) returns a cookie named auth_sessions whose
\* value is the session's session_id, with sameSite lax, path /, httpOnly true,
\* an expires 365 days after the time of the call, and secure true exactly when
\* NODE_ENV is production; the call changes no session, user or cache state.
C30_CookieOfSession ==
    [][\A p \in Callers :
          CookieStep(p) =>
              LET c == cookieCall'[p]
                  cookie == c.result
              IN  /\ cookie.name = "auth_sessions"
                  /\ cookie.value = c.session.session_id
                  /\ cookie.attributes.sameSite = "lax"
                  /\ cookie.attributes.path = "/"
                  /\ cookie.attributes.httpOnly = TRUE
                  /\ cookie.attributes.expires.day - (now \div DayMs) = 365
                  /\ cookie.attributes.expires.msOfDay = now % DayMs
                  /\ cookie.attributes.secure = (c.nodeEnv = "production")
                  /\ DOMAIN cookie = {"name", "value", "attributes"}
                  /\ DOMAIN cookie.attributes =
                        {"sameSite", "path", "httpOnly", "expires", "secure"}
                  /\ UNCHANGED <<sessions, users, redis, stored, useRedis,
                                 redisClient, tokens>>]_vars

\* a cookie was made outside production for a session that is stored and cached,
\* some time after the start
C30_Witness ==
    \E p \in Callers :
        /\ cookieCall[p].pc = "done"
        /\ cookieCall[p].nodeEnv = "development"
        /\ ~cookieCall[p].result.attributes.secure
        /\ cookieCall[p].at > 0
        /\ sessions[cookieCall[p].session.session_id] = cookieCall[p].session
        /\ redis[cookieCall[p].session.session_id] # NoEntry

-----------------------------------------------------------------------------
(* Properties of the calls, continued *)

\* the step in which p's call of this operation is made
Starts(p, op) == call[p].pc = "idle" /\ call'[p].pc # "idle" /\ call'[p].op = op

\* C31: createSession called with a missing user_id or device_id raises the
\* validation error in the step in which it is called, whatever the session store
\* would have answered: no session was looked up, and the session store is as it
\* was; a createSession call that goes on to the session store has both ids.
C31_MissingIdsRaiseFirst ==
    [][\A p \in Callers :
          Starts(p, "createSession") =>
              IF call'[p].user_id = "" \/ call'[p].device_id = ""
              THEN /\ call'[p].pc = "done"
                   /\ call'[p].result = "validationError"
                   /\ ~call'[p].dbFailed
                   /\ call'[p].found = NoSession
                   /\ UNCHANGED <<sessions, lastCreate>>
              ELSE call'[p].result # "validationError"]_vars

\* createSession was called without a device_id while the user has an active
\* session, which is as it was
C31_Witness ==
    \E p \in Finished("createSession") :
        /\ call[p].result = "validationError"
        /\ call[p].user_id = "u1"
        /\ call[p].device_id = ""
        /\ \E s \in SessionIds : IsActive(sessions[s], now) /\ sessions[s].user_id = "u1"

\* C32: without a cache client (Redis off in the configuration, or the
\* connection failed) every cache call is a no-op that does not raise:
\* getCachedSession returns null, setCachedSession and clearCachedSession return
\* normally, and none of them changes what Redis holds.
C32_NoClientNoOp ==
    [][\A p \in Callers :
          (redisClient = "null" /\ call[p].pc = "idle" /\ call'[p].pc # "idle"
             /\ call'[p].op \in {"getCachedSession", "setCachedSession",
                                 "clearCachedSession"}) =>
              /\ call'[p].pc = "done"
              /\ call'[p].result =
                    IF call'[p].op = "getCachedSession" THEN "null" ELSE "ok"
              /\ call'[p].user = IF call'[p].op = "setCachedSession"
                                 THEN call'[p].user ELSE NoUser
              /\ redis' = redis]_vars

\* setCachedSession was called after the connection to Redis failed
C32_Witness ==
    \E p \in Finished("setCachedSession") :
        /\ useRedis
        /\ redisClient = "null"
        /\ call[p].result = "ok"
        /\ call[p].user # NoUser
        /\ redis = [k \in SessionIds |-> NoEntry]

\* the step of p's call in which createUser, updateUserAttributes or
\* updateUserPassword reaches its write
PasswordWriteStep(p) ==
    /\ call'[p].pc = "done"
    /\ \/ Starts(p, "createUser")
       \/ Starts(p, "updateUserAttributes")
       \/ call[p].pc = "write" /\ call[p].op = "updateUserPassword"

-----------------------------------------------------------------------------
(* Properties of login, continued *)

\* the step in which p's login call is made and reads the user
LoginReadStep(p) == login[p].pc = "idle" /\ login'[p].pc # "idle"

\* the step in which p's login call verifies the password and writes the outcome
LoginVerifyStep(p) == login[p].pc = "verify" /\ login'[p].pc = "done"

\* the user record stored for this email
StoredUser(email) ==
    IF \E u \in UserIds : users[u] # NoUser /\ users[u].email = email
    THEN users[CHOOSE u \in UserIds : users[u] # NoUser /\ users[u].email = email]
    ELSE NoUser

\* C34: a login call is rejected as locked out, without the hasher, exactly when
\* it is made for a user with a password whose stored lockoutUntil is later than
\* the time of the call, and the rejection leaves every user record as it was:
\* failedAttempts is not incremented and lockoutUntil is not extended, however
\* many such calls are made.
C34_LockedRejectionWritesNothing ==
    [][\A p \in Callers :
          LoginReadStep(p) =>
              LET user == StoredUser(login'[p].email)
                  locked == /\ user # NoUser
                            /\ user.password # <<>>
                            /\ user.lockoutUntil.kind # "null"
                            /\ user.lockoutUntil.ms > now
              IN  /\ (login'[p].result = "AccountLocked") <=> locked
                  /\ locked => /\ login'[p].pc = "done"
                               /\ ~login'[p].hashed
                               /\ users' = users]_vars

\* the second rejection in a row of a locked-out user with the fifth failure
\* still on record and the lockout still the one that failure set
C34_Witness ==
    \E p \in FinishedLogins :
        /\ login[p].result = "AccountLocked"
        /\ login[p].preConsec >= 6
        /\ users["u1"].failedAttempts = 5
        /\ users["u1"].lockoutUntil = [kind |-> "Date", ms |-> failedCheckAt["a@x"] + 1800000]
        /\ now > failedCheckAt["a@x"]

\* C35: the passage of time changes no user record, so the elapse of
\* lockoutUntil does not reset failedAttempts: a login with a wrong password
\* made for a user whose lockoutUntil has elapsed finds failedAttempts >= 5 on
\* record, stores failedAttempts + 1 and lockoutUntil = now + 30 minutes, and
\* raises the account-locked error.
C35_ElapsedLockoutRelocksAtOnce ==
    [][/\ now' # now => users' = users
       /\ \A p \in Callers :
            (/\ LoginVerifyStep(p)
             /\ login[p].user.lockoutUntil.kind # "null"
             /\ login[p].user.lockoutUntil.ms <= login[p].startAt
             /\ login[p].user.password # <<"argon2id", login[p].password>>) =>
                LET u == login[p].user._id
                IN  /\ login[p].user.failedAttempts >= 5
                    /\ login'[p].result = "AccountLockedTooMany"
                    /\ users'[u].failedAttempts = login[p].user.failedAttempts + 1
                    /\ users'[u].lockoutUntil =
                          [kind |-> "Date", ms |-> now + 30 * 60 * 1000]]_vars

\* a single wrong password after an elapsed lockout has locked the account again
C35_Witness ==
    \E p \in FinishedLogins :
        /\ login[p].result = "AccountLockedTooMany"
        /\ login[p].user.failedAttempts = 5
        /\ login[p].user.lockoutUntil.kind = "Date"
        /\ login[p].user.lockoutUntil.ms <= login[p].startAt
        /\ users[login[p].user._id].failedAttempts = 6
        /\ users[login[p].user._id].lockoutUntil.ms > now

\* C36: the failed-attempt counter of login is a read-modify-write that is not
\* atomic: a login that fails its password check stores the failedAttempts it
\* read when it was called plus one, whatever the record holds by then, so the
\* failures of interleaved calls are counted once and more than 5 wrong passwords
\* reach the hasher before the account is locked.
C36_CounterWrittenFromStaleRead ==
    [][\A p \in Callers :
          (LoginVerifyStep(p) /\ login'[p].result # "user") =>
              LET u == login[p].user._id
              IN  /\ users'[u].failedAttempts = login[p].user.failedAttempts + 1
                  /\ login'[p].hashed
                  /\ login[p].user.failedAttempts < 5 =>
                        login[p].user.lockoutUntil.kind = "null"]_vars

\* two interleaved calls with a wrong password, both made after four failures
\* and both checked by the hasher: six wrong passwords were tried and the record
\* counts five
C36_Witness ==
    /\ \A p \in Callers :
          /\ login[p].pc = "done"
          /\ login[p].hashed
          /\ login[p].result = "AccountLockedTooMany"
          /\ login[p].user.failedAttempts = 4
          /\ login[p].user._id = "u1"
    /\ users["u1"].failedAttempts = 5

\* C37: with the cache on, once destroySession(session_id) has completed and
\* the validateSession call for that session has completed too, the session being
\* gone from the session store, the cache holds no entry for session_id.
C37_DestroyedSessionNotRecached ==
    \A p \in Finished("destroySession") : \A q \in Finished("validateSession") :
        (/\ call[p].result = "ok"
         /\ call[q].session_id = call[p].session_id
         /\ sessions[call[p].session_id] = NoSession) =>
            redis[call[p].session_id] = NoEntry

\* C38: a login call returns null exactly when it is made for an email with no
\* user record or for a user that has no password; it then returns in the step
\* in which it read the user, without raising, without the hasher and without
\* writing to the user store, and no later step of the call follows.
C38_NoUserOrNoPasswordReturnsNull ==
    [][\A p \in Callers :
          /\ LoginReadStep(p) =>
                LET user == StoredUser(login'[p].email)
                    none == user = NoUser \/ user.password = <<>>
                IN  /\ (login'[p].result = "null") <=> none
                    /\ none => /\ login'[p].pc = "done"
                               /\ ~login'[p].hashed
                               /\ users' = users
                               /\ failedCheckAt' = failedCheckAt
          /\ LoginVerifyStep(p) => login'[p].result # "null"]_vars

\* login was called for the user without a password after failures of the
\* registered user, and the records are as they were at the start
C38_Witness ==
    \E p \in FinishedLogins :
        /\ login[p].result = "null"
        /\ login[p].email = "b@x"
        /\ login[p].user._id = "u2"
        /\ ~login[p].hashed
        /\ users["u2"].failedAttempts = 0
        /\ users["u2"].lockoutUntil = [kind |-> "null", ms |-> 0]
        /\ users["u1"].failedAttempts > 0

-----------------------------------------------------------------------------
(* Properties of the user calls, continued *)

\* the steps of p's updateUserPassword call: the lookup and the write
PasswordLookupStep(p) == Starts(p, "updateUserPassword")

PasswordUpdateStep(p) ==
    call[p].pc = "write" /\ call[p].op = "updateUserPassword" /\ call'[p].pc = "done"

\* C39: updateUserPassword never raises.  For an email without a user it returns
\* status false with the message 'User not found' from the lookup, which writes
\* nothing; when the lookup, the hashing or the write fails it returns status
\* false and the user store is as it was; it returns status true exactly when the
\* hash of the new password was written to the user found by that email; no step
\* of the call changes the session store or the cache.
C39_PasswordUpdateNeverRaises ==
    [][\A p \in Callers :
          /\ PasswordLookupStep(p) =>
                /\ users' = users
                /\ call'[p].result # "error"
                /\ call'[p].pc = "done" => call'[p].result = "statusFalse"
                /\ StoredUser(call'[p].email) = NoUser =>
                      /\ call'[p].pc = "done"
                      /\ ~call'[p].dbFailed => call'[p].message = "User not found"
                /\ (StoredUser(call'[p].email) # NoUser /\ ~call'[p].dbFailed) =>
                      /\ call'[p].pc = "write"
                      /\ call'[p].user = StoredUser(call'[p].email)
          /\ PasswordUpdateStep(p) =>
                LET u == call[p].user._id
                    failed == call'[p].hashFailed \/ call'[p].dbFailed
                IN  /\ call'[p].result = IF failed THEN "statusFalse" ELSE "statusTrue"
                    /\ failed => users' = users
                    /\ ~failed =>
                          /\ users'[u].password = <<"argon2id", call[p].password>>
                          /\ users'[u].email = call[p].email
                          /\ \A v \in UserIds \ {u} : users'[v] = users[v]
          /\ (PasswordLookupStep(p) \/ PasswordUpdateStep(p)) =>
                UNCHANGED <<sessions, redis, stored>>]_vars

\* updateUserPassword has returned status false because the write failed, and
\* the password of the user is the old one
C39_Witness ==
    \E p \in Finished("updateUserPassword") :
        /\ call[p].result = "statusFalse"
        /\ call[p].dbFailed
        /\ call[p].user._id = "u1"
        /\ call[p].password = "pw2"
        /\ users["u1"].password = <<"argon2id", "pw1">>

-----------------------------------------------------------------------------
(* Properties of sanitizePermissions, continued *)

\* C40: sanitizePermissions is idempotent on its results: when
\* sanitizePermissions(m) is a dictionary (not the no-overrides signal),
\* sanitizePermissions of that dictionary is the same dictionary.
C40_SanitizeIsIdempotent ==
    (sanitized.called /\ sanitized.result.defined) =>
        /\ sanitizePermissions(sanitized.result.value) = sanitized.result
        /\ sanitizePermissions(sanitized.result.value).defined
        /\ \A r \in DOMAIN sanitized.result.value :
              \A p \in DOMAIN sanitized.result.value[r] :
                  sanitized.result.value[r][p] = given[r][p]

\* a dictionary of all four roles with overrides for two of them was sanitized:
\* the result is smaller than the dictionary, and sanitizing it gives it back
C40_Witness ==
    /\ sanitized.called
    /\ sanitized.result.defined
    /\ DOMAIN given = {"admin", "developer", "editor", "user"}
    /\ DOMAIN sanitized.result.value = {"developer", "user"}
    /\ sanitized.result.value["user"] = [q \in {"write", "read"} |->
                                           IF q = "write" THEN TRUE ELSE FALSE]
    /\ sanitizePermissions(sanitized.result.value).value = sanitized.result.value

====
